---------------------------- MODULE Spec2Model ----------------------------
(***************************************************************************)
(* Row grouping, header detection, deterministic field extraction,         *)
(* manufacturer inheritance and ambiguity resolution of the component      *)
(* extractor (HybridExtractor in src/src/services/DeterministicExtractor.js*)
(* and HeaderAwareExcelExtractor in                                        *)
(* src/src/services/headerAwareExcelExtractor.js).                         *)
(*                                                                         *)
(* Text is a sequence of one-character strings.  The letter o-slash is     *)
(* written "/o" (lower case) and "/O" (upper case) so that the module      *)
(* stays ASCII.  JavaScript null is Null for text and NullNum for numbers. *)
(***************************************************************************)
EXTENDS Integers, Sequences, FiniteSets, TLC

(***************************************************************************)
(* Characters and JavaScript string primitives                             *)
(***************************************************************************)
Digit == {"0", "1", "2", "3", "4", "5", "6", "7", "8", "9"}

LowerAZ == {"a", "b", "c", "d", "e", "f", "g", "h", "i", "j", "k", "l", "m",
            "n", "o", "p", "q", "r", "s", "t", "u", "v", "w", "x", "y", "z"}

UpperAZ == {"A", "B", "C", "D", "E", "F", "G", "H", "I", "J", "K", "L", "M",
            "N", "O", "P", "Q", "R", "S", "T", "U", "V", "W", "X", "Y", "Z"}

\* the three Norwegian lower-case letters of [a-z ae o-slash a-ring]; only
\* o-slash occurs in the texts of the model
NorwLower == {"/o"}

Space == {" "}

LowerOf ==
  [c \in UpperAZ \cup {"/O"} |->
     CASE c = "A" -> "a" [] c = "B" -> "b" [] c = "C" -> "c" [] c = "D" -> "d"
       [] c = "E" -> "e" [] c = "F" -> "f" [] c = "G" -> "g" [] c = "H" -> "h"
       [] c = "I" -> "i" [] c = "J" -> "j" [] c = "K" -> "k" [] c = "L" -> "l"
       [] c = "M" -> "m" [] c = "N" -> "n" [] c = "O" -> "o" [] c = "P" -> "p"
       [] c = "Q" -> "q" [] c = "R" -> "r" [] c = "S" -> "s" [] c = "T" -> "t"
       [] c = "U" -> "u" [] c = "V" -> "v" [] c = "W" -> "w" [] c = "X" -> "x"
       [] c = "Y" -> "y" [] c = "Z" -> "z" [] c = "/O" -> "/o"]

UpperOf ==
  [c \in LowerAZ \cup {"/o"} |->
     CHOOSE u \in UpperAZ \cup {"/O"} : LowerOf[u] = c]

ToLowerChar(c) == IF c \in DOMAIN LowerOf THEN LowerOf[c] ELSE c

ToUpperChar(c) == IF c \in DOMAIN UpperOf THEN UpperOf[c] ELSE c

\* String.prototype.toLowerCase / toUpperCase
toLowerCase(s) == [i \in 1..Len(s) |-> ToLowerChar(s[i])]

toUpperCase(s) == [i \in 1..Len(s) |-> ToUpperChar(s[i])]

\* a character class under the regular-expression flag i
IgnoreCase(cs) ==
  cs \cup {ToLowerChar(c) : c \in cs} \cup {ToUpperChar(c) : c \in cs}

\* String.prototype.trim
trim(s) ==
  LET keep == {i \in 1..Len(s) : s[i] \notin Space}
  IN  IF keep = {} THEN <<>>
      ELSE LET lo == CHOOSE i \in keep : \A j \in keep : i <= j
               hi == CHOOSE i \in keep : \A j \in keep : j <= i
           IN  SubSeq(s, lo, hi)

\* does sub occur in s at index i
OccursAt(s, sub, i) ==
  /\ i >= 1
  /\ i + Len(sub) - 1 <= Len(s)
  /\ \A j \in 1..Len(sub) : s[i + j - 1] = sub[j]

\* String.prototype.includes / startsWith
includes(s, sub) == \E i \in 1..(Len(s) + 1) : OccursAt(s, sub, i)

startsWith(s, p) == OccursAt(s, p, 1)

\* String.prototype.replace(',', '.'): the first comma only
replaceComma(s) ==
  LET cs == {i \in 1..Len(s) : s[i] = ","}
  IN  IF cs = {} THEN s
      ELSE LET f == CHOOSE i \in cs : \A j \in cs : i <= j
           IN  [i \in 1..Len(s) |-> IF i = f THEN "." ELSE s[i]]

\* JavaScript null in a text-valued field; no text of the model equals it
Null == <<"<null>">>

\* JavaScript truthiness of a text-or-null value
Truthy(s) == s # Null /\ s # <<>>

\* a || b on text-or-null values
OrElse(a, b) == IF Truthy(a) THEN a ELSE b

(***************************************************************************)
(* JavaScript numbers: a decimal m / 10^e kept normalised, NaN or null     *)
(***************************************************************************)
NullNum == [t |-> "null", m |-> 0, e |-> 0]

NaN == [t |-> "nan", m |-> 0, e |-> 0]

RECURSIVE Pow10(_)
Pow10(n) == IF n = 0 THEN 1 ELSE 10 * Pow10(n - 1)

RECURSIVE Normalise(_, _)
Normalise(m, e) ==
  IF e > 0 /\ m % 10 = 0 THEN Normalise(m \div 10, e - 1)
  ELSE [t |-> "num", m |-> m, e |-> e]

IsNum(x) == x.t = "num"

\* a < b on numbers
NumLess(a, b) == a.m * Pow10(b.e) < b.m * Pow10(a.e)

\* x || d on numbers: 0 and NaN are falsy
NumOr(x, d) == IF x.t = "num" /\ x.m # 0 THEN x ELSE d

\* x ?? d on numbers
NumCoalesce(x, d) == IF x.t = "null" THEN d ELSE x

DigitVal ==
  [c \in Digit |->
     CASE c = "0" -> 0 [] c = "1" -> 1 [] c = "2" -> 2 [] c = "3" -> 3
       [] c = "4" -> 4 [] c = "5" -> 5 [] c = "6" -> 6 [] c = "7" -> 7
       [] c = "8" -> 8 [] c = "9" -> 9]

RECURSIVE DigitsVal(_)
DigitsVal(s) ==
  IF s = <<>> THEN 0
  ELSE 10 * DigitsVal(SubSeq(s, 1, Len(s) - 1)) + DigitVal[s[Len(s)]]

\* length of the run of characters of cs in s from index i on
RECURSIVE RunLen(_, _, _)
RunLen(cs, s, i) ==
  IF i <= Len(s) /\ s[i] \in cs THEN 1 + RunLen(cs, s, i + 1) ELSE 0

\* the value of the decimal literal that starts at index i of s: digits,
\* optionally a dot and digits; NaN when no digit starts it
DecimalAt(s, i) ==
  LET n == RunLen(Digit, s, i)
      dot == i + n <= Len(s) /\ s[i + n] = "."
      f == IF dot THEN RunLen(Digit, s, i + n + 1) ELSE 0
  IN  IF n = 0 THEN NaN
      ELSE Normalise(DigitsVal(SubSeq(s, i, i + n - 1) \o
                               SubSeq(s, i + n + 1, i + n + f)), f)

\* parseFloat: leading white space is skipped, then the longest decimal
\* prefix is read (the cells of the model carry no sign and no exponent)
parseFloat(s) == DecimalAt(s, RunLen(Space, s, 1) + 1)

\* parseInt: leading white space is skipped, then the leading digits are read
parseInt(s) ==
  LET i == RunLen(Space, s, 1) + 1
      n == RunLen(Digit, s, i)
  IN  IF n = 0 THEN NaN ELSE Normalise(DigitsVal(SubSeq(s, i, i + n - 1)), 0)

\* Number(text): the whole trimmed text must be a decimal literal; the
\* empty text is 0
Number(s) ==
  LET u == trim(s)
      n == RunLen(Digit, u, 1)
      dot == n < Len(u) /\ u[n + 1] = "."
      f == IF dot THEN RunLen(Digit, u, n + 2) ELSE 0
      used == n + (IF dot THEN 1 + f ELSE 0)
  IN  IF u = <<>> THEN Normalise(0, 0)
      ELSE IF n = 0 \/ used # Len(u) THEN NaN
      ELSE DecimalAt(u, 1)

(***************************************************************************)
(* Regular expressions: a backtracking matcher with JavaScript's priority  *)
(* order (leftmost start, greedy quantifiers).  Ends(r, s, i) lists, in    *)
(* the order the engine tries them, the indices at which a match of r that *)
(* starts at index i of s can end.                                         *)
(***************************************************************************)
\* one character of the class cs
Set(cs) == [k |-> "set", cs |-> cs]

\* cs{min,max}, greedy; max = -1 stands for no upper limit
Rep(cs, min, max) == [k |-> "rep", cs |-> cs, min |-> min, max |-> max]

Star(cs) == Rep(cs, 0, -1)

Plus(cs) == Rep(cs, 1, -1)

\* r?, greedy
Opt(r) == [k |-> "opt", r |-> r]

\* r1 r2 ... rn
Cat(ps) == [k |-> "cat", ps |-> ps]

\* r1 | r2 | ... | rn
Alt(ps) == [k |-> "alt", ps |-> ps]

\* (?!c) for one character of cs
NotAhead(cs) == [k |-> "nla", cs |-> cs]

\* ^ and $
Bol == [k |-> "bol"]

Eol == [k |-> "eol"]

\* \b
WordBoundary == [k |-> "wb"]

\* a literal text
Lit(s) == Cat([i \in 1..Len(s) |-> Set({s[i]})])

\* a literal text under the flag i
LitI(s) == Cat([i \in 1..Len(s) |-> Set(IgnoreCase({s[i]}))])

WordChar == Digit \cup LowerAZ \cup UpperAZ \cup {"_"}

Min(a, b) == IF a < b THEN a ELSE b

RECURSIVE Ends(_, _, _), EndsCat(_, _, _, _), EndsEach(_, _, _, _, _), EndsAlt(_, _, _, _)
Ends(r, s, i) ==
  CASE r.k = "set" -> IF i <= Len(s) /\ s[i] \in r.cs THEN <<i + 1>> ELSE <<>>
    [] r.k = "rep" ->
         LET run == RunLen(r.cs, s, i)
             top == IF r.max < 0 THEN run ELSE Min(run, r.max)
         IN  IF top < r.min THEN <<>>
             ELSE [j \in 1..(top - r.min + 1) |-> i + top - (j - 1)]
    [] r.k = "opt" -> Ends(r.r, s, i) \o <<i>>
    [] r.k = "cat" -> EndsCat(r.ps, 1, s, i)
    [] r.k = "alt" -> EndsAlt(r.ps, 1, s, i)
    [] r.k = "nla" -> IF i <= Len(s) /\ s[i] \in r.cs THEN <<>> ELSE <<i>>
    [] r.k = "bol" -> IF i = 1 THEN <<i>> ELSE <<>>
    [] r.k = "eol" -> IF i = Len(s) + 1 THEN <<i>> ELSE <<>>
    [] r.k = "wb" ->
         LET before == i > 1 /\ s[i - 1] \in WordChar
             after == i <= Len(s) /\ s[i] \in WordChar
         IN  IF before # after THEN <<i>> ELSE <<>>

EndsCat(ps, k, s, i) ==
  IF k > Len(ps) THEN <<i>>
  ELSE EndsEach(Ends(ps[k], s, i), 1, ps, k, s)

EndsEach(es, j, ps, k, s) ==
  IF j > Len(es) THEN <<>>
  ELSE EndsCat(ps, k + 1, s, es[j]) \o EndsEach(es, j + 1, ps, k, s)

EndsAlt(ps, k, s, i) ==
  IF k > Len(ps) THEN <<>>
  ELSE Ends(ps[k], s, i) \o EndsAlt(ps, k + 1, s, i)

\* RegExp.prototype.test
Test(r, s) == \E i \in 1..(Len(s) + 1) : Ends(r, s, i) # <<>>

\* text.match(/pre(grp)post/)?.[1] : the text captured by the group in the
\* first match the engine finds, Null when there is no match
Capture(pre, grp, post, s) ==
  LET whole == Cat(<<pre, grp, post>>)
      starts == {i \in 1..(Len(s) + 1) : Ends(whole, s, i) # <<>>}
  IN  IF starts = {} THEN Null
      ELSE LET i0 == CHOOSE i \in starts : \A j \in starts : i <= j
               ps == Ends(pre, s, i0)
               okP == {a \in 1..Len(ps) : Ends(Cat(<<grp, post>>), s, ps[a]) # <<>>}
               a0 == CHOOSE a \in okP : \A b \in okP : a <= b
               es == Ends(grp, s, ps[a0])
               okE == {a \in 1..Len(es) : Ends(post, s, es[a]) # <<>>}
               e0 == CHOOSE a \in okE : \A b \in okE : a <= b
           IN  SubSeq(s, ps[a0], es[e0] - 1)

(***************************************************************************)
(* HybridExtractor: header filter and deterministic field extraction       *)
(***************************************************************************)
knownManufacturers ==
  <<<<"A", "Q", "S", " ", "T", "O", "R">>, <<"A", "q", "u", "a", "l", "i", "n", "e">>, <<"A", "q", "u", "a", " ", "S", "u", "p", "p", "o", "r", "t", "e", "r">>, <<"S", "c", "a", "l", "e", " ", "A", "Q">>,
    <<"M", "/o", "r", "e", "n", "o", "t">>, <<"L", "/o", "v", "o", "l", "d">>, <<"F", "S", "V", " ", "G", "r", "o", "u", "p">>, <<"F", "r", "/o", "y">>>>

\* is the text x one of the elements of the array xs
InList(xs, x) == \E i \in 1..Len(xs) : xs[i] = x

\* \d+[.,]?\d*
ReDecimal == Cat(<<Plus(Digit), Opt(Set({".", ","})), Star(Digit)>>)

ReNothing == Cat(<<>>)

\* /^\d+(\.\d+)?\s*[a-z ae o-slash a-ring]/i
ReCategory ==
  Cat(<<Bol, Plus(Digit), Opt(Cat(<<Set({"."}), Plus(Digit)>>)), Star(Space),
        Set(IgnoreCase(LowerAZ \cup NorwLower))>>)

headerKeywords ==
  <<<<"t", "y", "p", "e">>, <<"p", "o", "s", "i", "s", "j", "o", "n">>, <<"p", "o", "s", "i", "t", "i", "o", "n">>, <<"a", "n", "t", "a", "l", "l">>, <<"q", "u", "a", "n", "t", "i", "t", "y">>, <<"k", "o", "m", "m", "e", "n", "t", "a", "r">>,
    <<"m", "e", "r", "k", "n", "a", "d">>, <<"f", "o", "r", "t", "/o", "y", "n", "i", "n", "g", "s", "l", "i", "n", "e">>, <<"p", "l", "o", "g", "a", "n", "k", "e", "r">>, <<"b", "u", "n", "n", "f", "o", "r", "t", "/o", "y", "n", "i", "n", "g">>>>

categoryWords ==
  <<<<"k", "j", "e", "t", "t", "i", "n", "g">>, <<"s", "j", "a", "k", "k", "e", "l">>, <<"t", "a", "u">>, <<"b", "/o", "y", "e">>, <<"a", "n", "k", "e", "r">>, <<"l", "i", "n", "e">>>>

\* /\d+ *mm/, /\d+[.,]?\d* *m(?!m)/, /\d+[.,]?\d* *kg/, /\d+[.,]?\d* *t(?!a)/
hasSpecsOf(combined) ==
  \/ Test(Cat(<<Plus(Digit), Star({" "}), Lit(<<"m", "m">>)>>), combined)
  \/ Test(Cat(<<ReDecimal, Star({" "}), Lit(<<"m">>), NotAhead({"m"})>>), combined)
  \/ Test(Cat(<<ReDecimal, Star({" "}), Lit(<<"k", "g">>)>>), combined)
  \/ Test(Cat(<<ReDecimal, Star({" "}), Lit(<<"t">>), NotAhead({"a"})>>), combined)

\* the text `${type} ${subtype}`.trim() of the header filter
combinedOf(row) ==
  trim(toLowerCase(trim(row.type)) \o <<" ">> \o toLowerCase(trim(row.subtype)))

hasIDOf(row) == trim(row.id) # <<>>

hasCountOf(row) ==
  LET n == Number(row.antall) IN IsNum(n) /\ n.m > 0

\* the filter without its last rule, the one on the category words
isHeaderRowRowNoCategory(row) ==
  LET combined == combinedOf(row)
  IN  IF combined = <<>> THEN TRUE
      ELSE IF Test(ReCategory, combined) THEN TRUE
      ELSE IF \E h \in 1..Len(headerKeywords) : startsWith(combined, headerKeywords[h])
           THEN TRUE
      ELSE ~hasSpecsOf(combined) /\ ~hasIDOf(row) /\ ~hasCountOf(row)

isHeaderRowRow(row) ==
  LET type == toLowerCase(trim(row.type))
      combined == combinedOf(row)
      hasSpecs == hasSpecsOf(combined)
      hasID == hasIDOf(row)
      hasCount == hasCountOf(row)
  IN  IF combined = <<>> THEN TRUE
      ELSE IF Test(ReCategory, combined) THEN TRUE
      ELSE IF \E h \in 1..Len(headerKeywords) : startsWith(combined, headerKeywords[h])
           THEN TRUE
      ELSE IF ~hasSpecs /\ ~hasID /\ ~hasCount THEN TRUE
      ELSE IF InList(categoryWords, type) /\ ~hasSpecs /\ ~hasID THEN TRUE
      ELSE FALSE

\* capture?.[1]?.replace(',', '.') ?? null, then x ? Number(x) : null
NumberOrNull(cap) == IF Truthy(cap) THEN Number(replaceComma(cap)) ELSE NullNum

\* the chain of if statements that sets componentType; a later one wins
componentTypeOf(full) ==
  IF includes(full, <<"l", "o", "d", "d">>) \/ includes(full, <<"s", "/o", "k", "k">>) \/ includes(full, <<"s", "/o", "k", "k", "e">>)
    THEN <<"s", "i", "n", "k", "e", "r">>
  ELSE IF includes(full, <<"p", "l", "a", "t", "e">>) THEN <<"g", "r", "i", "d", " ", "p", "l", "a", "t", "e">>
  ELSE IF includes(full, <<"s", "w", "i", "v", "e", "l">>) \/ includes(full, <<"s", "v", "i", "r", "v", "e", "l">>) THEN <<"s", "w", "i", "v", "e", "l">>
  ELSE IF includes(full, <<"b", "/o", "y", "e">>) \/ includes(full, <<"b", "u", "o", "y">>) THEN <<"b", "u", "o", "y">>
  ELSE IF includes(full, <<"t", "a", "u">>) \/ includes(full, <<"t", "r", "o", "s", "s", "e">>) \/ includes(full, <<"r", "o", "p", "e">>)
    THEN <<"r", "o", "p", "e">>
  ELSE IF includes(full, <<"a", "n", "k", "e", "r">>) \/ includes(full, <<"p", "l", "o", "g", "a", "n", "k", "e", "r">>) THEN <<"a", "n", "c", "h", "o", "r">>
  ELSE IF includes(full, <<"s", "j", "a", "k", "k", "e", "l">>) \/ includes(full, <<"s", "j", "a", "k", "e", "l">>) THEN <<"s", "h", "a", "c", "k", "l", "e">>
  ELSE IF includes(full, <<"k", "j", "e", "d", "e">>) THEN <<"c", "h", "a", "i", "n">>
  ELSE IF includes(full, <<"k", "j", "e", "t", "t", "i", "n", "g">>) THEN <<"c", "h", "a", "i", "n">>
  ELSE <<"u", "n", "k", "n", "o", "w", "n">>

\* /[A-Z]{2,}-?[A-Z0-9]+/
ReTracking ==
  Cat(<<Rep(UpperAZ, 2, -1), Opt(Set({"-"})), Plus(UpperAZ \cup Digit)>>)

\* /^\d{4,}$/ and /^\d{4,}-\d+$/
RePart == Cat(<<Bol, Rep(Digit, 4, -1), Eol>>)

RePartDash == Cat(<<Bol, Rep(Digit, 4, -1), Set({"-"}), Plus(Digit), Eol>>)

extractDeterministicFields(type, subtype, idRaw, manufacturerRaw) ==
  LET full == toLowerCase(type \o <<" ">> \o subtype)
      diameter == Capture(ReNothing, Plus(Digit),
                          Cat(<<Star(Space), LitI(<<"m", "m">>)>>), full)
      length == Capture(ReNothing, ReDecimal,
                        Cat(<<Star(Space), LitI(<<"m">>), NotAhead(IgnoreCase({"m"}))>>), full)
      weightKg == Capture(ReNothing, ReDecimal,
                          Cat(<<Star(Space), LitI(<<"k", "g">>)>>), full)
      capacityT == Capture(ReNothing, ReDecimal,
                           Cat(<<Star(Space), LitI(<<"t">>), NotAhead(IgnoreCase({"a"}))>>), full)
      id == trim(idRaw)
      isTracking == Test(ReTracking, id)
      isPartNumber == Test(RePart, id) \/ Test(RePartDash, id)
      trimmed == trim(manufacturerRaw)
      known == [i \in 1..Len(knownManufacturers) |-> toLowerCase(knownManufacturers[i])]
  IN  [componentType |-> componentTypeOf(full),
       diameter_mm |-> NumberOrNull(diameter),
       length_m |-> NumberOrNull(length),
       weight_kg |-> NumberOrNull(weightKg),
       capacity_t |-> NumberOrNull(capacityT),
       tracking |-> IF isTracking THEN id ELSE Null,
       partNumber |-> IF ~isTracking /\ isPartNumber THEN id ELSE Null,
       manufacturer |-> IF InList(known, toLowerCase(trimmed))
                        THEN toUpperCase(trimmed) ELSE trimmed]

\* extractSpecifications(description): the capacity pattern is /(\d+[.,]?\d*)\s*t/
extractSpecifications(description) ==
  LET text == toLowerCase(description)
      num(cap) == IF cap = Null THEN NullNum ELSE parseFloat(replaceComma(cap))
  IN  [vekt_kg |-> num(Capture(ReNothing, ReDecimal,
                               Cat(<<Star(Space), Lit(<<"k", "g">>)>>), text)),
       lengde_m |-> num(Capture(ReNothing, ReDecimal,
                                Cat(<<Star(Space), Lit(<<"m">>), NotAhead({"m"})>>), text)),
       diameter_mm |-> LET c == Capture(ReNothing, Plus(Digit),
                                        Cat(<<Star(Space), Lit(<<"m", "m">>)>>), text)
                       IN  IF c = Null THEN NullNum ELSE Number(c),
       kapasitet_t |-> num(Capture(ReNothing, ReDecimal,
                                   Cat(<<Star(Space), Lit(<<"t">>)>>), text))]

(***************************************************************************)
(* HybridExtractor: grouping, sorting and preparation of the rows          *)
(***************************************************************************)
\* Array.prototype.sort with the comparator (a, b) => key(a) - key(b) is a
\* stable sort ascending by key.  SortPerm(keys) is the order it gives: the
\* indices of keys, ascending by key, equal keys in index order.
RECURSIVE InsertSorted(_, _, _)
InsertSorted(sorted, i, keys) ==
  IF sorted = <<>> THEN <<i>>
  ELSE IF NumLess(keys[i], keys[sorted[Len(sorted)]])
       THEN Append(InsertSorted(SubSeq(sorted, 1, Len(sorted) - 1), i, keys),
                   sorted[Len(sorted)])
       ELSE Append(sorted, i)

RECURSIVE SortPrefix(_, _)
SortPrefix(keys, n) ==
  IF n = 0 THEN <<>> ELSE InsertSorted(SortPrefix(keys, n - 1), n, keys)

SortPerm(keys) == SortPrefix(keys, Len(keys))

Num(n) == [t |-> "num", m |-> n, e |-> 0]

\* parseFloat((a.rekkefolge || '').toString().replace(',', '.')) || 999
seqKey(row) == NumOr(parseFloat(replaceComma(row.rekkefolge)), Num(999))

\* the position key of a row: (row.posisjon || '').toString().trim()
positionOf(row) == trim(row.posisjon)

\* the rows that reach a group: they have a position and are no header
RECURSIVE keptRows(_)
keptRows(rows) ==
  IF rows = <<>> THEN <<>>
  ELSE LET rest == keptRows(SubSeq(rows, 1, Len(rows) - 1))
           row == rows[Len(rows)]
       IN  IF positionOf(row) = <<>> \/ isHeaderRowRow(row) THEN rest
           ELSE Append(rest, row)

\* a canonical array index: such keys come first, ascending, in Object.entries
IsArrayIndex(p) ==
  /\ p # <<>>
  /\ \A i \in 1..Len(p) : p[i] \in Digit
  /\ (p[1] = "0" => Len(p) = 1)
  /\ Len(p) <= 9

\* the position of every row, a key for each row
firstSeenAll(rows) == [i \in 1..Len(rows) |-> positionOf(rows[i])]

RECURSIVE firstSeen(_)
firstSeen(rows) ==
  IF rows = <<>> THEN <<>>
  ELSE LET rest == firstSeen(SubSeq(rows, 1, Len(rows) - 1))
           p == positionOf(rows[Len(rows)])
       IN  IF \E i \in 1..Len(rest) : rest[i] = p THEN rest ELSE Append(rest, p)

\* Object.entries(grouped): the keys in the order the object enumerates
\* them, each with its rows in arrival order; arrival keeps that order as
\* history when components is sorted in place
groupRows(rows) ==
  LET kept == keptRows(rows)
      keys == firstSeen(kept)
      isIdx(p) == IsArrayIndex(p)
      notIdx(p) == ~IsArrayIndex(p)
      idxKeys == SelectSeq(keys, isIdx)
      perm == SortPerm([i \in 1..Len(idxKeys) |-> Num(DigitsVal(idxKeys[i]))])
      order == [i \in 1..Len(perm) |-> idxKeys[perm[i]]] \o SelectSeq(keys, notIdx)
  IN  [g \in 1..Len(order) |->
         LET here(r) == positionOf(r) = order[g]
         IN  [position |-> order[g], components |-> SelectSeq(kept, here),
              arrival |-> SelectSeq(kept, here)]]

\* components.sort(...) of groupAndProcessRows
sortComponents(components) ==
  LET perm == SortPerm([i \in 1..Len(components) |-> seqKey(components[i])])
  IN  [i \in 1..Len(perm) |-> components[perm[i]]]

\* the object prepareForAI returns for a row and its deterministic fields
preparedOf(normalizedRow, determin) ==
  [rekkefolge |-> normalizedRow.rekkefolge,
   antall |-> OrElse(normalizedRow.antall, <<"1">>),
   rawType |-> normalizedRow.type,
   rawSub |-> normalizedRow.subtype,
   rawText |-> trim(normalizedRow.type \o <<" ">> \o normalizedRow.subtype),
   manufacturer |-> OrElse(determin.manufacturer, normalizedRow.montor),
   tracking |-> determin.tracking,
   partNumber |-> determin.partNumber,
   componentType |-> determin.componentType,
   specs |-> [diameter_mm |-> determin.diameter_mm,
              length_m |-> determin.length_m,
              weight_kg |-> determin.weight_kg,
              capacity_t |-> determin.capacity_t],
   \* properties that resolveComponentsWithAI adds later
   subtype |-> Null,
   cleanManufacturer |-> Null,
   confidence |-> NullNum]

prepareForAI(normalizedRow) ==
  preparedOf(normalizedRow,
             extractDeterministicFields(normalizedRow.type, normalizedRow.subtype,
                                        normalizedRow.id, normalizedRow.montor))

\* the conditions under which resolveComponentsWithAI asks the resolver
needsAiOf(c) ==
  LET ambiguousType == ~Truthy(c.componentType) \/ c.componentType = <<"u", "n", "k", "n", "o", "w", "n">>
      ambiguousManufacturer == ~Truthy(c.manufacturer)
      ambiguousId == /\ c.tracking = Null
                     /\ c.partNumber = Null
                     /\ Len(OrElse(c.rawType, c.rawSub)) > 0
      missingSpecs == /\ c.specs.diameter_mm = NullNum
                      /\ c.specs.length_m = NullNum
                      /\ c.specs.weight_kg = NullNum
                      /\ c.specs.capacity_t = NullNum
  IN  ambiguousType \/ ambiguousManufacturer \/ ambiguousId \/ missingSpecs

aiConcurrency == 10

\* chunks of one call more than aiConcurrency
chunksOfWide(prepared) ==
  LET idx == [i \in 1..Len(prepared) |-> i]
      need(i) == needsAiOf(prepared[i])
      needsAi == SelectSeq(idx, need)
      n == (Len(needsAi) + aiConcurrency) \div (aiConcurrency + 1)
  IN  [c \in 1..n |->
         SubSeq(needsAi, (c - 1) * (aiConcurrency + 1) + 1,
                Min(c * (aiConcurrency + 1), Len(needsAi)))]

\* the indices of the components that need the resolver, cut into chunks
chunksOf(prepared) ==
  LET idx == [i \in 1..Len(prepared) |-> i]
      need(i) == needsAiOf(prepared[i])
      needsAi == SelectSeq(idx, need)
      n == (Len(needsAi) + aiConcurrency - 1) \div aiConcurrency
  IN  [c \in 1..n |->
         SubSeq(needsAi, (c - 1) * aiConcurrency + 1,
                Min(c * aiConcurrency, Len(needsAi)))]

\* the cache key of aiInterpretComponent
keyOf(component) ==
  component.rawText \o <<"|">> \o OrElse(component.manufacturer, <<>>) \o <<"|">> \o
  OrElse(component.tracking, <<>>) \o <<"|">> \o OrElse(component.partNumber, <<>>)

\* x || null on numbers
NumOrNull(x) == NumOr(x, NullNum)

\* a fallback that claims the confidence of an answer
fallbackOfSure(component) ==
  [componentType |-> OrElse(component.componentType, <<"u", "k", "j", "e", "n", "t">>),
   subtype |-> OrElse(component.rawSub, <<>>),
   cleanManufacturer |-> OrElse(component.manufacturer, <<>>),
   partNumber |-> OrElse(component.partNumber, Null),
   tracking |-> OrElse(component.tracking, Null),
   specs |-> [weight_kg |-> NumOrNull(component.specs.weight_kg),
              length_m |-> NumOrNull(component.specs.length_m),
              diameter_mm |-> NumOrNull(component.specs.diameter_mm),
              capacity_t |-> NumOrNull(component.specs.capacity_t)],
   confidence |-> [t |-> "num", m |-> 9, e |-> 1]]

\* the fallback of aiInterpretComponent (no parsable answer, or an exception)
fallbackOf(component) ==
  [componentType |-> OrElse(component.componentType, <<"u", "k", "j", "e", "n", "t">>),
   subtype |-> OrElse(component.rawSub, <<>>),
   cleanManufacturer |-> OrElse(component.manufacturer, <<>>),
   partNumber |-> OrElse(component.partNumber, Null),
   tracking |-> OrElse(component.tracking, Null),
   specs |-> [weight_kg |-> NumOrNull(component.specs.weight_kg),
              length_m |-> NumOrNull(component.specs.length_m),
              diameter_mm |-> NumOrNull(component.specs.diameter_mm),
              capacity_t |-> NumOrNull(component.specs.capacity_t)],
   confidence |-> [t |-> "num", m |-> 5, e |-> 1]]

\* the result aiInterpretComponent builds from a parsed answer
parsedResultOf(parsed, component) ==
  [componentType |-> OrElse(parsed.componentType,
                            OrElse(component.componentType, <<"u", "k", "j", "e", "n", "t">>)),
   subtype |-> OrElse(parsed.subtype, OrElse(component.rawSub, <<>>)),
   cleanManufacturer |-> OrElse(parsed.cleanManufacturer,
                                OrElse(component.manufacturer, <<>>)),
   partNumber |-> OrElse(parsed.partNumber, OrElse(component.partNumber, Null)),
   tracking |-> OrElse(parsed.tracking, OrElse(component.tracking, Null)),
   specs |-> [weight_kg |-> NumCoalesce(parsed.specs.weight_kg, component.specs.weight_kg),
              length_m |-> NumCoalesce(parsed.specs.length_m, component.specs.length_m),
              diameter_mm |-> NumCoalesce(parsed.specs.diameter_mm,
                                          component.specs.diameter_mm),
              capacity_t |-> NumCoalesce(parsed.specs.capacity_t,
                                         component.specs.capacity_t)],
   confidence |-> NumCoalesce(parsed.confidence, [t |-> "num", m |-> 9, e |-> 1])]

\* what aiInterpretComponent returns and caches for an answer of the service
interpret(answer, component) ==
  IF answer.kind = "json" THEN parsedResultOf(answer, component)
  ELSE fallbackOf(component)

\* a merge that takes the specifications of the result as they are
mergeResultTaking(o, res) ==
  [o EXCEPT
     !.componentType = OrElse(res.componentType, o.componentType),
     !.subtype = OrElse(res.subtype, o.subtype),
     !.cleanManufacturer = OrElse(res.cleanManufacturer, OrElse(o.manufacturer, <<>>)),
     !.partNumber = OrElse(res.partNumber, OrElse(o.partNumber, Null)),
     !.tracking = OrElse(res.tracking, OrElse(o.tracking, Null)),
     !.specs = [diameter_mm |-> res.specs.diameter_mm,
                length_m |-> res.specs.length_m,
                weight_kg |-> res.specs.weight_kg,
                capacity_t |-> res.specs.capacity_t],
     !.confidence = NumCoalesce(res.confidence, [t |-> "num", m |-> 9, e |-> 1])]

\* the merge of one result into out[idx] in resolveComponentsWithAI
mergeResult(o, res) ==
  [o EXCEPT
     !.componentType = OrElse(res.componentType, o.componentType),
     !.subtype = OrElse(res.subtype, o.subtype),
     !.cleanManufacturer = OrElse(res.cleanManufacturer, OrElse(o.manufacturer, <<>>)),
     !.partNumber = OrElse(res.partNumber, OrElse(o.partNumber, Null)),
     !.tracking = OrElse(res.tracking, OrElse(o.tracking, Null)),
     !.specs = [diameter_mm |-> NumCoalesce(res.specs.diameter_mm, o.specs.diameter_mm),
                length_m |-> NumCoalesce(res.specs.length_m, o.specs.length_m),
                weight_kg |-> NumCoalesce(res.specs.weight_kg, o.specs.weight_kg),
                capacity_t |-> NumCoalesce(res.specs.capacity_t, o.specs.capacity_t)],
     !.confidence = NumCoalesce(res.confidence, [t |-> "num", m |-> 9, e |-> 1])]

\* one element of processedComponents
processedOf(c) ==
  [sekvens |-> NumOr(parseInt(c.rekkefolge), Num(0)),
   type |-> OrElse(c.componentType, <<"u", "k", "j", "e", "n", "t">>),
   type_original |-> OrElse(c.rawType, <<>>),
   beskrivelse |-> OrElse(c.rawText, <<>>),
   mengde |-> OrElse(c.antall, <<"1">>),
   spesifikasjoner |-> [vekt_kg |-> c.specs.weight_kg,
                        lengde_m |-> c.specs.length_m,
                        diameter_mm |-> c.specs.diameter_mm,
                        kapasitet_t |-> c.specs.capacity_t],
   leverandor |-> OrElse(c.cleanManufacturer, OrElse(c.manufacturer, <<>>)),
   sporingsnummer |-> OrElse(c.tracking, <<>>),
   part_number |-> OrElse(c.partNumber, <<>>),
   confidence |-> NumOr(c.confidence, Num(1))]

classifyPositionType(position) ==
  LET lead(cs) == Test(Cat(<<Bol, Set(IgnoreCase(cs)), Set(Digit)>>), position)
  IN  IF lead({"H"}) THEN <<"f", "o", "r", "t", "/o", "y", "n", "i", "n", "g", "s", "l", "i", "n", "j", "e">>
      ELSE IF lead({"K"}) THEN <<"k", "o", "b", "l", "i", "n", "g", "s", "p", "u", "n", "k", "t">>
      ELSE IF lead({"S"}) THEN <<"s", "i", "d", "e", "l", "i", "n", "e">>
      ELSE IF lead({"R"}) THEN <<"r", "a", "m", "m", "e">>
      ELSE IF lead({"A"}) THEN <<"a", "n", "k", "e", "r", "p", "u", "n", "k", "t">>
      ELSE IF lead({"B"}) THEN <<"b", "/o", "y", "e">>
      ELSE IF Test(LitI(<<"b", "u", "r">>), position) THEN <<"b", "u", "r">>
      ELSE <<"u", "k", "j", "e", "n", "t">>

(***************************************************************************)
(* The inputs of the model                                                 *)
(***************************************************************************)
\* the rows one run may read in all; the sheets one run may hold; the runs
\* of one extractor
MaxRows == 3

MaxSheets == 2

MaxRuns == 2

NormalizedRow(posisjon, rekkefolge, type, subtype, id, montor, antall) ==
  [posisjon |-> posisjon, rekkefolge |-> rekkefolge, type |-> type,
   subtype |-> subtype, id |-> id, montor |-> montor, antall |-> antall]

\* the two rows of the end-to-end scenario
RowPloganker ==
  NormalizedRow(<<"H", "0", "1", "A">>, <<"1">>, <<"P", "l", "o", "g", "a", "n", "k", "e", "r">>, <<"S", "o", "f", "t", "a", "n", "k", "e", "r", " ", "1", "7", "0", "0", " ", "k", "g">>, <<"6", "0", "6", "6", "1", "6">>,
                <<"A", "Q", "S", " ", "T", "O", "R">>, <<>>)

RowSjakkel ==
  NormalizedRow(<<"H", "0", "1", "A">>, <<"2">>, <<"S", "j", "a", "k", "k", "e", "l">>, <<"S", "j", "a", "k", "k", "e", "l", " ", "9", "0", "T">>, <<"G", "A", "P", "-", "G", "B", "A">>, <<>>, <<>>)

\* an anchor row that the deterministic extractor resolves completely
RowAnker ==
  NormalizedRow(<<"H", "0", "1", "A">>, <<"1">>, <<"A", "n", "k", "e", "r">>, <<"S", "o", "f", "t", "a", "n", "k", "e", "r", " ", "1", "7", "0", "0", " ", "k", "g">>, <<"6", "0", "6", "6", "1", "6">>,
                <<"A", "Q", "S", " ", "T", "O", "R">>, <<>>)

\* a row without a sequence number
RowKjetting ==
  NormalizedRow(<<"H", "0", "1", "A">>, <<>>, <<"K", "j", "e", "t", "t", "i", "n", "g">>, <<"K", "j", "e", "t", "t", "i", "n", "g", " ", "3", "0", "m", "m", " ", "-", " ", "2", "7", ",", "5", "m">>, <<"G", "1", "4", "6", "3">>,
                <<"S", "c", "a", "l", "e", " ", "A", "Q">>, <<>>)

\* a row with a large sequence number
RowTrosse ==
  NormalizedRow(<<"H", "0", "1", "A">>, <<"1", "0", "0", "0">>, <<"T", "r", "o", "s", "s", "e">>, <<"T", "r", "o", "s", "s", "e", " ", "4", "0", "m", "m">>, <<"A", "B", "-", "1", "2">>, <<>>, <<"1">>)

\* a row of another position, with a type outside the synonym table's names
RowPlate ==
  NormalizedRow(<<"H", "0", "2", "A">>, <<"0">>, <<"K", "o", "b", "l", "i", "n", "g", "s", "p", "l", "a", "t", "e">>, <<"P", "l", "a", "t", "e", " ", "1", "2", " ", "h", "u", "l", "l">>, <<"1", "2", "3", "4">>,
                <<"M", "/o", "r", "e", "n", "o", "t">>, <<>>)

RowPool == {RowPloganker, RowSjakkel, RowAnker, RowKjetting, RowTrosse, RowPlate}

NoSpecs ==
  [weight_kg |-> NullNum, length_m |-> NullNum, diameter_mm |-> NullNum,
   capacity_t |-> NullNum]

\* what the external service can do with one call: throw, answer text that
\* is no JSON, answer an empty JSON object, or answer a filled JSON object
Answer(kind, componentType, cleanManufacturer, weight_kg, confidence) ==
  [kind |-> kind, componentType |-> componentType, subtype |-> Null,
   cleanManufacturer |-> cleanManufacturer, partNumber |-> Null, tracking |-> Null,
   specs |-> [NoSpecs EXCEPT !.weight_kg = weight_kg], confidence |-> confidence]

AnswerPool ==
  {Answer("throw", Null, Null, NullNum, NullNum),
   Answer("garbage", Null, Null, NullNum, NullNum),
   Answer("json", Null, Null, NullNum, NullNum),
   Answer("json", <<"k", "a", "u", "s", "e">>, <<"F", "r", "/o", "y">>, Num(5), Num(0))}

(***************************************************************************)
(* The state of one HybridExtractor and of the run in progress             *)
(***************************************************************************)
VARIABLES
  pc,                 \* where extractFromExcel stands
  runs,               \* calls of extractFromExcel so far
  sheetNo,            \* sheets of the workbook read so far in this run
  rowsLeft,           \* rows the extractor may still read
  normalizedRows,     \* the rows of the sheet in progress
  grouped,            \* Object.entries(grouped) of the sheet in progress
  gi,                 \* index of the group in progress
  out,                \* the array out of resolveComponentsWithAI
  chunks,             \* the chunks of indices that need the resolver
  ci,                 \* index of the chunk in progress
  promises,           \* the promises of the chunk in progress
  aiCache,            \* this.aiCache
  aiCallCount,        \* this.aiCallCount
  positionGroups,     \* the groups of the sheet in progress
  allPositionGroups,  \* the groups of the run
  callLog             \* history: the keys of the external calls, in call order

hybridVars ==
  <<pc, runs, sheetNo, rowsLeft, normalizedRows, grouped, gi, out, chunks, ci, promises, aiCache,
    aiCallCount, positionGroups, allPositionGroups, callLog>>

HybridInit ==
  /\ pc = "idle"
  /\ runs = 0
  /\ sheetNo = 0
  /\ rowsLeft = MaxRows
  /\ normalizedRows = <<>>
  /\ grouped = <<>>
  /\ gi = 1
  /\ out = <<>>
  /\ chunks = <<>>
  /\ ci = 1
  /\ promises = <<>>
  /\ aiCache = <<>>
  /\ aiCallCount = 0
  /\ positionGroups = <<>>
  /\ allPositionGroups = <<>>
  /\ callLog = <<>>

\* extractFromExcel is called: the counter is reset, the cache is kept
ExtractFromExcel ==
  /\ pc \in {"idle", "done", "failed"}
  /\ runs < MaxRuns
  /\ runs' = runs + 1
  /\ pc' = "loop"
  /\ sheetNo' = 0
  /\ aiCallCount' = 0
  /\ allPositionGroups' = <<>>
  /\ UNCHANGED <<rowsLeft, normalizedRows, grouped, gi, out, chunks, ci, promises,
                 aiCache, positionGroups, callLog>>

\* the loop reads the next sheet, with rows out of pool; its rows are
\* grouped by position
ReadSheetFrom(pool) ==
  /\ pc = "loop"
  /\ sheetNo < MaxSheets
  /\ \E n \in 0..rowsLeft : \E rows \in [1..n -> pool] :
       /\ sheetNo' = sheetNo + 1
       /\ rowsLeft' = rowsLeft - n
       /\ normalizedRows' = rows
       /\ IF n = 0
          THEN UNCHANGED <<pc, grouped, gi, positionGroups>>
          ELSE /\ pc' = "group"
               /\ grouped' = groupRows(rows)
               /\ gi' = 1
               /\ positionGroups' = <<>>
  /\ UNCHANGED <<runs, out, chunks, ci, promises, aiCache, aiCallCount,
                 allPositionGroups, callLog>>

ReadSheet == ReadSheetFrom(RowPool)

\* the group that groupAndProcessRows pushes for out
emittedGroup(position, sheet, components) ==
  [dokument_referanse |-> position,
   posisjon_type |-> classifyPositionType(position),
   sheet_kilde |-> sheet,
   komponenter |-> [i \in 1..Len(components) |-> processedOf(components[i])]]

\* the next group is sorted and prepared; without a component that needs
\* the resolver it is emitted at once
StartGroup ==
  /\ pc = "group"
  /\ gi <= Len(grouped)
  /\ \E sorted \in {sortComponents(grouped[gi].components)} :
     \E prepared \in {[i \in 1..Len(sorted) |-> prepareForAI(sorted[i])]} :
     \E ch \in {chunksOf(prepared)} :
       /\ grouped' = [grouped EXCEPT ![gi].components = sorted]
       /\ chunks' = ch
       /\ ci' = 1
       /\ promises' = <<>>
       /\ IF ch = <<>>
          THEN \E done \in {[i \in 1..Len(prepared) |->
                               [prepared[i] EXCEPT !.confidence = Num(1)]]} :
                 /\ out' = done
                 /\ positionGroups' =
                      Append(positionGroups,
                             emittedGroup(grouped[gi].position, sheetNo, done))
                 /\ gi' = gi + 1
                 /\ pc' = "group"
          ELSE /\ out' = prepared
               /\ UNCHANGED <<positionGroups, gi>>
               /\ pc' = "dispatch"
  /\ UNCHANGED <<runs, sheetNo, rowsLeft, normalizedRows, aiCache, aiCallCount,
                 allPositionGroups, callLog>>

\* chunk.map(item => this.aiInterpretComponent(item.payload)): every call
\* runs up to its first await before any answer arrives
Dispatch ==
  /\ pc = "dispatch"
  /\ LET chunk == chunks[ci]
         key(j) == keyOf(out[chunk[j]])
         miss(j) == key(j) \notin DOMAIN aiCache
         js == [j \in 1..Len(chunk) |-> j]
         missed == SelectSeq(js, miss)
     IN  /\ promises' = [j \in 1..Len(chunk) |->
                           IF miss(j) THEN [st |-> "flying", key |-> key(j)]
                           ELSE [st |-> "settled", res |-> aiCache[key(j)]]]
         /\ aiCallCount' = aiCallCount + Len(missed)
         /\ callLog' = callLog \o [m \in 1..Len(missed) |-> key(missed[m])]
  /\ pc' = "await"
  /\ UNCHANGED <<runs, sheetNo, rowsLeft, normalizedRows, grouped, gi, out, chunks,
                 ci, aiCache, positionGroups, allPositionGroups>>

\* one call in flight ends with one of the given answers of the service: the
\* result is cached and settles the promise
RespondWith(answers) ==
  /\ pc = "await"
  /\ \E j \in 1..Len(promises) : \E answer \in answers :
       /\ promises[j].st = "flying"
       /\ LET res == interpret(answer, out[chunks[ci][j]])
              key == promises[j].key
          IN  /\ aiCache' = [k \in DOMAIN aiCache \cup {key} |->
                               IF k = key THEN res ELSE aiCache[k]]
              /\ promises' = [promises EXCEPT ![j] = [st |-> "settled", res |-> res]]
  /\ UNCHANGED <<pc, runs, sheetNo, rowsLeft, normalizedRows, grouped, gi, out,
                 chunks, ci, aiCallCount, positionGroups, allPositionGroups, callLog>>

\* the service is free in what it does with a call
Respond == RespondWith(AnswerPool)

\* the slot of the mirrored position of the chunk
slotOfMirrored(chunk, i) ==
  Len(chunk) + 1 - (CHOOSE j \in 1..Len(chunk) : chunk[j] = i)

\* results[j] belongs to the component at chunk[j].index: the slot j of the
\* chunk that holds index i
slotOf(chunk, i) == CHOOSE j \in 1..Len(chunk) : chunk[j] = i

\* results in which one fallback turns every result of the batch into a
\* result that carries nothing
resultsOfRejecting(ps) ==
  IF \E j \in 1..Len(ps) : ps[j].res.confidence = [t |-> "num", m |-> 5, e |-> 1]
  THEN [j \in 1..Len(ps) |->
          [componentType |-> Null, subtype |-> Null, cleanManufacturer |-> Null,
           partNumber |-> Null, tracking |-> Null, specs |-> NoSpecs,
           confidence |-> [t |-> "num", m |-> 5, e |-> 1]]]
  ELSE [j \in 1..Len(ps) |-> ps[j].res]

\* results = await Promise.all(promises): the result of each promise at the
\* place of the promise
resultsOf(ps) == [j \in 1..Len(ps) |-> ps[j].res]

\* Promise.all has settled: the results are merged by index; after the last
\* chunk the group is emitted
Merge ==
  /\ pc = "await"
  /\ \A j \in 1..Len(promises) : promises[j].st = "settled"
  /\ LET chunk == chunks[ci]
         merged == [i \in 1..Len(out) |->
                      IF \E j \in 1..Len(chunk) : chunk[j] = i
                      THEN mergeResult(out[i], resultsOf(promises)[slotOf(chunk, i)])
                      ELSE out[i]]
     IN  /\ out' = merged
         /\ promises' = <<>>
         /\ IF ci < Len(chunks)
            THEN /\ ci' = ci + 1
                 /\ pc' = "dispatch"
                 /\ UNCHANGED <<positionGroups, gi>>
            ELSE /\ ci' = ci
                 /\ pc' = "group"
                 /\ positionGroups' =
                      Append(positionGroups,
                             emittedGroup(grouped[gi].position, sheetNo, merged))
                 /\ gi' = gi + 1
  /\ UNCHANGED <<runs, sheetNo, rowsLeft, normalizedRows, grouped, chunks, aiCache,
                 aiCallCount, allPositionGroups, callLog>>

\* groupAndProcessRows returns: the groups of the sheet join those of the run
EndSheet ==
  /\ pc = "group"
  /\ gi > Len(grouped)
  /\ allPositionGroups' = allPositionGroups \o positionGroups
  /\ pc' = "loop"
  /\ UNCHANGED <<runs, sheetNo, rowsLeft, normalizedRows, grouped, gi, out, chunks,
                 ci, promises, aiCache, aiCallCount, positionGroups, callLog>>

\* the workbook has no further sheet: extractFromExcel returns its result
Return ==
  /\ pc = "loop"
  /\ pc' = "done"
  /\ UNCHANGED <<runs, sheetNo, rowsLeft, normalizedRows, grouped, gi, out, chunks,
                 ci, promises, aiCache, aiCallCount, positionGroups, allPositionGroups,
                 callLog>>

HybridNext ==
  \/ ExtractFromExcel
  \/ ReadSheet
  \/ StartGroup
  \/ Dispatch
  \/ Respond
  \/ Merge
  \/ EndSheet
  \/ Return

(***************************************************************************)
(* HybridExtractor: the functions on one row, called on their own          *)
(***************************************************************************)
\* /^\d{5,}$/ and the other patterns of classifyIdentifiers, in its order;
\* an identifier of 6 to 19 characters that matches none is handed to
\* classifyIdWithAI, whose answer is verdict
classifyIdentifiers(idString, verdict) ==
  LET id == trim(idString)
      whole(ps) == Test(Cat(<<Bol>> \o ps \o <<Eol>>), id)
      part == [partNumber |-> id, tracking |-> Null]
      track == [partNumber |-> Null, tracking |-> id]
      neither == [partNumber |-> Null, tracking |-> Null]
  IN  IF trim(idString) = <<>> THEN neither
      ELSE IF whole(<<Rep(Digit, 5, -1)>>) THEN part
      ELSE IF whole(<<Rep(Digit, 5, -1), Set({"-"}), Plus(Digit)>>) THEN part
      ELSE IF whole(<<Rep(UpperAZ, 2, 3), Set({"-"}), Rep(UpperAZ, 2, 3)>>) THEN track
      ELSE IF whole(<<Set(UpperAZ), Rep(Digit, 1, 4)>>) THEN track
      ELSE IF whole(<<Plus(UpperAZ), Plus(Digit)>>) /\ Len(id) <= 6 THEN track
      ELSE IF whole(<<Plus(Digit), Lit(<<"T">>)>>) \/ whole(<<Plus(Digit), Lit(<<"M", "I", "N">>)>>)
           THEN neither
      ELSE IF whole(<<Rep(Digit, 6, -1), Set({"-"}), Plus(Digit)>>) THEN part
      ELSE IF whole(<<Rep(Digit, 6, -1)>>) THEN part
      ELSE IF Len(id) > 5 /\ Len(id) < 20
           THEN (IF verdict = "part_number" THEN part ELSE track)
      ELSE track

\* the longest generated text
MaxLen == 3

Sigma == {"7", ".", " ", "m", "k", "g", "t", "a"}

GenText == UNION {[1..n -> Sigma] : n \in 0..MaxLen}

TypePool == {<<>>, <<"S", "j", "a", "k", "k", "e", "l">>, <<"K", "a", "u", "s", "e">>}

IdPool ==
  {<<>>, <<"6", "0", "6", "6", "1", "6">>, <<"1", "2", "3", "4">>, <<"1", "2", "3", "4", "-", "5">>, <<"1", "2", "3">>, <<"G", "A", "P", "-", "G", "B", "A">>, <<"G", "1", "4", "6", "3">>, <<"1", "2", "T">>,
   <<"2", "0", "M", "I", "N">>, <<"A", "B", "1", "2", "3", "4", "5">>}

MontorPool == {<<>>, <<"s", "c", "a", "l", "e", " ", "a", "q">>, <<"A", "c", "m", "e">>}

\* a row whose text states specifications of zero
RowZero ==
  NormalizedRow(<<"H", "0", "1", "A">>, <<"3">>, <<"K", "j", "e", "t", "t", "i", "n", "g">>, <<"0", " ", "k", "g", " ", "0", "m">>, <<>>, <<>>, <<>>)

\* the rows the single functions are called on: generated descriptions
\* under a few types, the identifiers of IdPool, and the rows of RowPool
FieldInputs ==
  {NormalizedRow(<<"H", "0", "1", "A">>, <<"1">>, ty, sub, id, <<>>, an) :
     ty \in TypePool, sub \in GenText, id \in {<<>>, <<"G", "A", "P", "-", "G", "B", "A">>}, an \in {<<>>, <<"2">>}}
  \cup {NormalizedRow(<<"H", "0", "1", "A">>, <<"1">>, <<"S", "j", "a", "k", "k", "e", "l">>, <<"S", "j", "a", "k", "k", "e", "l", " ", "9", "0", "T">>, id, mo, <<>>) :
          id \in IdPool, mo \in MontorPool}
  \cup {NormalizedRow(<<"H", "0", "1", "A">>, <<"1">>, ty, sub, <<>>, <<>>, an) :
          ty \in {<<"T", "y", "p", "e">>, <<"P", "o", "s", "i", "s", "j", "o", "n">>, <<"T", "a", "u">>},
          sub \in {<<>>, <<"7", ",", "5", "m">>, <<"1", "0", " ", "t", "a", "u">>, <<"1", ",", "5", " ", "k", "g", " ", "7", ",", "m", "m">>}, an \in {<<"0">>, <<"2">>}}
  \cup RowPool \cup {RowZero}
  \cup {NormalizedRow(<<"H", "0", "1", "A">>, <<>>, <<"F", "o", "r", "t", "/o", "y", "n", "i", "n", "g", "s", "l", "i", "n", "e", " ", "t", "y", "p", "e", " ", "1", ".", "2">>, <<>>, <<>>, <<>>, <<"0">>)}

VARIABLES
  fIn,    \* the row a function is called on
  fOp,    \* the function that was called, "none" before the call
  fOut    \* what it returned

fieldVars == <<fIn, fOp, fOut>>

FieldsInit ==
  /\ fIn \in FieldInputs
  /\ fOp = "none"
  /\ fOut = <<>>

FieldsIdle ==
  /\ fIn = <<>>
  /\ fOp = "idle"
  /\ fOut = <<>>

CallIsHeaderRowRow ==
  /\ fOp = "none"
  /\ fOp' = "isHeaderRowRow"
  /\ fOut' = isHeaderRowRow(fIn)
  /\ UNCHANGED fIn

CallExtractDeterministicFields ==
  /\ fOp = "none"
  /\ fOp' = "extractDeterministicFields"
  /\ fOut' = extractDeterministicFields(fIn.type, fIn.subtype, fIn.id, fIn.montor)
  /\ UNCHANGED fIn

CallExtractSpecifications ==
  /\ fOp = "none"
  /\ fOp' = "extractSpecifications"
  /\ fOut' = extractSpecifications(fIn.subtype)
  /\ UNCHANGED fIn

CallClassifyIdentifiers ==
  /\ fOp = "none"
  /\ fOp' = "classifyIdentifiers"
  /\ \E verdict \in {"part_number", "tracking", "neither", "throw"} :
       fOut' = classifyIdentifiers(fIn.id, verdict)
  /\ UNCHANGED fIn

(***************************************************************************)
(* HeaderAwareExcelExtractor.enrichWithManufacturers                       *)
(***************************************************************************)
\* the components one position group may hold
MaxComponents == 4

\* komponenter.sort((a, b) => (a.sekvens || 999) - (b.sekvens || 999))
sortKomponenter(komponenter) ==
  LET perm == SortPerm([i \in 1..Len(komponenter) |->
                          NumOr(komponenter[i].sekvens, Num(999))])
  IN  [i \in 1..Len(perm) |-> komponenter[perm[i]]]

\* an inheritance that carries the last manufacturer seen forward instead
RECURSIVE carryForward(_, _)
carryForward(komponenter, n) ==
  IF n = 0 THEN <<>>
  ELSE LET before == carryForward(komponenter, n - 1)
           k == komponenter[n]
       IN  IF n > 1 /\ ~Truthy(k.leverandor) /\ Truthy(before[n - 1].leverandor)
           THEN Append(before, [k EXCEPT !.leverandor = before[n - 1].leverandor,
                                         !.leverandor_inherited = TRUE])
           ELSE Append(before, k)

enrichGroupNearest(group) ==
  IF Len(group.komponenter) = 0 THEN group
  ELSE LET komponenter == sortKomponenter(group.komponenter)
       IN  [group EXCEPT !.komponenter = carryForward(komponenter, Len(komponenter))]

\* an inheritance that gives every later component the manufacturer of the
\* first one
enrichGroupOverwriting(group) ==
  IF Len(group.komponenter) = 0 THEN group
  ELSE LET komponenter == sortKomponenter(group.komponenter)
           firstManufacturer == komponenter[1].leverandor
       IN  [group EXCEPT !.komponenter =
              IF Truthy(firstManufacturer)
              THEN [i \in 1..Len(komponenter) |->
                      IF i > 1
                      THEN [komponenter[i] EXCEPT !.leverandor = firstManufacturer,
                                                  !.leverandor_inherited = TRUE]
                      ELSE komponenter[i]]
              ELSE komponenter]

\* the body of the loop of enrichWithManufacturers for one group
enrichGroup(group) ==
  IF Len(group.komponenter) = 0 THEN group
  ELSE LET komponenter == sortKomponenter(group.komponenter)
           firstManufacturer == komponenter[1].leverandor
       IN  [group EXCEPT !.komponenter =
              IF Truthy(firstManufacturer)
              THEN [i \in 1..Len(komponenter) |->
                      IF i > 1 /\ ~Truthy(komponenter[i].leverandor)
                      THEN [komponenter[i] EXCEPT !.leverandor = firstManufacturer,
                                                  !.leverandor_inherited = TRUE]
                      ELSE komponenter[i]]
              ELSE komponenter]

enrichWithManufacturers(groups) ==
  [g \in 1..Len(groups) |-> enrichGroup(groups[g])]

\* a component as extractComponentFromRow builds it: sekvens is an integer
\* or null, leverandor a non-empty text or null; rad is the number of the
\* row it came from
Komponent(rad, sekvens, leverandor) ==
  [rad |-> rad, sekvens |-> sekvens, leverandor |-> leverandor,
   leverandor_inherited |-> FALSE]

SekvensPool == {NullNum, Num(0), Num(1), Num(2)}

LeverandorPool == {Null, <<"A", "Q", "S", " ", "T", "O", "R">>, <<"S", "c", "a", "l", "e", " ", "A", "Q">>}

VARIABLES
  haPc,         \* "input" before enrichWithManufacturers ran, "done" after,
                \* "again" after it ran on its own output
  haGroups,     \* positionGroups
  haArrival     \* history: positionGroups as they were handed in

haVars == <<haPc, haGroups, haArrival>>

HAInit ==
  /\ haPc = "input"
  /\ \E n \in 0..MaxComponents :
       \E sk \in [1..n -> SekvensPool] : \E lv \in [1..n -> LeverandorPool] :
         haGroups =
           IF n = 0 THEN <<>>
           ELSE <<[dokument_referanse |-> <<"H", "0", "1", "A">>,
                   komponenter |-> [i \in 1..n |-> Komponent(i, sk[i], lv[i])]]>>
  /\ haArrival = haGroups

HAIdle ==
  /\ haPc = "idle"
  /\ haGroups = <<>>
  /\ haArrival = <<>>

\* enrichWithManufacturers is called on positionGroups, and once more on
\* what the first call left
EnrichWithManufacturers ==
  /\ haPc \in {"input", "done"}
  /\ haPc' = IF haPc = "input" THEN "done" ELSE "again"
  /\ haGroups' = enrichWithManufacturers(haGroups)
  /\ UNCHANGED haArrival

(***************************************************************************)
(* Position mappings: CatalogAwareExtractor and AIExtractor on the same    *)
(* rows, run twice with the positionMappings of each run                   *)
(***************************************************************************)
\* the longest list of position mappings
MaxMappings == 2

PositionMapping(documentReference, internalPosition, positionId) ==
  [documentReference |-> documentReference, internalPosition |-> internalPosition,
   positionId |-> positionId]

MappingPool ==
  {PositionMapping(<<"h", "0", "1", "a">>, "7", "70"), PositionMapping(<<"H", "0", "1", "A">>, "8", "80"),
   PositionMapping(<<"K", "0", "1">>, "9", "90")}

MappingLists == UNION {[1..n -> MappingPool] : n \in 0..MaxMappings}

\* the position references of the rows of a sheet, in Object.keys order
PositionRefPool == {<<<<"H", "0", "1", "A">>>>, <<<<"K", "0", "1">>, <<"H", "0", "1", "A">>>>}

\* the components the service extracts for one position
ComponentsPool == {<<>>, <<"anchor">>}

\* the component groups the service extracts for a document
ComponentGroupsPool ==
  {<<>>,
   <<[document_reference |-> <<"H", "0", "1", "A">>, components |-> <<"anchor">>]>>,
   <<[document_reference |-> <<"7">>, components |-> <<"anchor">>]>>}

VARIABLES
  mapPc,       \* "first", "second": the run that comes next; "done"
  mapInput,    \* the extractor, the rows, and the positionMappings of each run
  mapService,  \* the answers the service has given, by prompt
  mapResults   \* the results of the runs so far

mapVars == <<mapPc, mapInput, mapService, mapResults>>

MapInit ==
  /\ mapPc = "first"
  /\ mapInput \in [kind : {"CatalogAwareExtractor", "AIExtractor"},
                   refs : PositionRefPool,
                   positionMappings : MappingLists \X MappingLists]
  /\ mapService = <<>>
  /\ mapResults = <<>>

MapIdle ==
  /\ mapPc = "idle"
  /\ mapInput = <<>>
  /\ mapService = <<>>
  /\ mapResults = <<>>

\* a find that compares the references as they are written
findMappingExact(positionMappings, positionRef) ==
  LET hit(m) == m.documentReference = positionRef
  IN  SelectSeq(positionMappings, hit)

\* positionMappings.find(m => m.documentReference.toLowerCase() ===
\* positionRef.toLowerCase()): the mappings that match, the one found first
findMapping(positionMappings, positionRef) ==
  LET hit(m) == toLowerCase(m.documentReference) = toLowerCase(positionRef)
  IN  SelectSeq(positionMappings, hit)

\* the groups extractPositionsWithCatalogMatching pushes for the answer of
\* the service
annotatedGroups(refs, chunkExtractedData, positionMappings) ==
  [i \in 1..Len(refs) |->
     LET mapping == findMapping(positionMappings, refs[i])
     IN  [document_reference |-> refs[i],
          internal_position |-> IF mapping = <<>> THEN "null" ELSE mapping[1].internalPosition,
          position_id |-> IF mapping = <<>> THEN "null" ELSE mapping[1].positionId,
          mapping_found |-> mapping # <<>>,
          components |-> chunkExtractedData[i]]]

\* the part of the prompt of aiExtractBatchWithCatalog that depends on the
\* call: the positions and their rows
catalogPrompt(refs) == [positions |-> refs, mappings |-> <<>>]

\* the part of the prompt of buildExtractionPrompt that depends on the call:
\* the document, and the mappings when there are any
buildExtractionPrompt(refs, positionMappings) ==
  [positions |-> refs,
   mappings |-> [i \in 1..Len(positionMappings) |->
                   <<positionMappings[i].documentReference,
                     positionMappings[i].internalPosition>>]]

\* the mappings of the run that comes next
mappingsOfRun == mapInput.positionMappings[IF mapPc = "first" THEN 1 ELSE 2]

\* the service answers a prompt as it answered it before, and a new prompt
\* with any of the answers
answersTo(prompt, answers) ==
  IF prompt \in DOMAIN mapService THEN {mapService[prompt]} ELSE answers

\* CatalogAwareExtractor.extractPositionsWithCatalogMatching on the rows
ExtractPositionsWithCatalogMatching ==
  /\ mapPc \in {"first", "second"}
  /\ mapInput.kind = "CatalogAwareExtractor"
  /\ \E prompt \in {catalogPrompt(mapInput.refs)} :
     \E answer \in answersTo(prompt, [1..Len(mapInput.refs) -> ComponentsPool]) :
       /\ mapService' = [q \in DOMAIN mapService \cup {prompt} |->
                           IF q = prompt THEN answer ELSE mapService[q]]
       /\ mapResults' = Append(mapResults,
                               annotatedGroups(mapInput.refs, answer, mappingsOfRun))
  /\ mapPc' = IF mapPc = "first" THEN "second" ELSE "done"
  /\ UNCHANGED mapInput

\* AIExtractor.extractComponents on the rows
ExtractComponents ==
  /\ mapPc \in {"first", "second"}
  /\ mapInput.kind = "AIExtractor"
  /\ \E prompt \in {buildExtractionPrompt(mapInput.refs, mappingsOfRun)} :
     \E answer \in answersTo(prompt, ComponentGroupsPool) :
       /\ mapService' = [q \in DOMAIN mapService \cup {prompt} |->
                           IF q = prompt THEN answer ELSE mapService[q]]
       /\ mapResults' = Append(mapResults, answer)
  /\ mapPc' = IF mapPc = "first" THEN "second" ELSE "done"
  /\ UNCHANGED mapInput

(***************************************************************************)
(* IntegratedFileProcessor.initialize and its concurrent callers           *)
(***************************************************************************)
\* the calls of initialize one processor may see
MaxInitCalls == 3

\* the functions that await this.initialize()
InitCallers == {"initializeApp", "getLocalities", "processFiles"}

VARIABLES
  isInitialized,  \* this.isInitialized
  extractor,      \* this.extractor: "null" or the extractor with its catalog
  initPc,         \* where the initialize call of each caller stands
  initLog         \* history: what the calls did to the database, in order

initVars == <<isInitialized, extractor, initPc, initLog>>

\* the state the constructor leaves
InitializeInit ==
  /\ isInitialized = FALSE
  /\ extractor = "null"
  /\ initPc = [c \in InitCallers |-> "none"]
  /\ initLog = <<>>

InitializeIdle ==
  /\ isInitialized = FALSE
  /\ extractor = "null"
  /\ initPc = <<>>
  /\ initLog = <<>>

\* new CatalogAwareExtractor(productCatalog)
CatalogAwareExtractor(productCatalog) == [productCatalog |-> productCatalog]

\* the calls of initialize made so far
initCalls == Len(SelectSeq(initLog, LAMBDA e : e.op = "initialize"))

\* a caller calls initialize: it returns at once when isInitialized is set,
\* and awaits db.connect() otherwise
CallInitialize(c) ==
  /\ initPc[c] \in {"none", "returned", "threw"}
  /\ initCalls < MaxInitCalls
  /\ initPc' = [initPc EXCEPT ![c] = IF isInitialized THEN "returned" ELSE "connect"]
  /\ initLog' = Append(initLog, [op |-> "initialize", by |-> c, ok |-> TRUE])
  /\ UNCHANGED <<isInitialized, extractor>>

\* db.connect() settles: the call goes on to await db.getProductCatalog(),
\* or the catch rethrows
Connect(c) ==
  /\ initPc[c] = "connect"
  /\ \E ok \in BOOLEAN :
       /\ initPc' = [initPc EXCEPT ![c] = IF ok THEN "load" ELSE "threw"]
       /\ initLog' = Append(initLog, [op |-> "connect", by |-> c, ok |-> ok])
  /\ UNCHANGED <<isInitialized, extractor>>

\* db.getProductCatalog() settles: the extractor is made and isInitialized
\* is set, or the catch rethrows
GetProductCatalog(c) ==
  /\ initPc[c] = "load"
  /\ \E ok \in BOOLEAN :
       /\ initLog' = Append(initLog, [op |-> "getProductCatalog", by |-> c, ok |-> ok])
       /\ IF ok
          THEN /\ extractor' = CatalogAwareExtractor("full")
               /\ isInitialized' = TRUE
               /\ initPc' = [initPc EXCEPT ![c] = "returned"]
          ELSE /\ initPc' = [initPc EXCEPT ![c] = "threw"]
               /\ UNCHANGED <<isInitialized, extractor>>

(***************************************************************************)
(* IntegratedFileProcessor.processFiles and getProcessingSummary, and the  *)
(* renderer's submitToDatabase with insertComponents                       *)
(***************************************************************************)
\* the files of one processFiles call; the processFiles calls of one processor
MaxFiles == 2

MaxProcessRuns == 2

\* the paths the user can select: path.extname decides the file type
FilePool == {[fileName |-> "a.xlsx", fileType |-> ".xlsx"],
             [fileName |-> "b.pdf", fileType |-> ".pdf"]}

supportedFileTypes == {".xlsx", ".xls"}

\* the supplier the user can prefer, or null
SupplierPool == {"null", "5"}

\* a component as the service returns it for aiExtractBatchWithCatalog
Component(description, matched_product_id, match_confidence) ==
  [description |-> description, matched_product_id |-> matched_product_id,
   match_confidence |-> match_confidence]

CompExact == Component("Softanker 1700 kg", Num(3594), [t |-> "num", m |-> 95, e |-> 2])

CompNear == Component("Kjetting 30mm", Num(812), [t |-> "num", m |-> 7, e |-> 1])

CompDoubtful == Component("Sjakkel 90T", Num(852), [t |-> "num", m |-> 4, e |-> 1])

CompNoMatch == Component("Tau 40mm", NullNum, NullNum)

\* a position group as extractPositionsWithCatalogMatching pushes it
PositionGroup(document_reference, position_id, components) ==
  [document_reference |-> document_reference, position_id |-> position_id,
   mapping_found |-> position_id # NullNum, components |-> components]

\* what extractFromExcel can return: its catch turns every error into a
\* result with success false, and the groups hold what the service answered
Extraction(success, error, position_groups, ai_calls_made) ==
  [defined |-> TRUE, success |-> success, error |-> error,
   position_groups |-> position_groups, ai_calls_made |-> ai_calls_made]

ExtractionPool ==
  {Extraction(FALSE, "Cannot read file", <<>>, 0),
   Extraction(TRUE, "undefined", <<>>, 0),
   Extraction(TRUE, "undefined",
              <<PositionGroup("H01A", Num(70), <<CompExact, CompNoMatch>>)>>, 1),
   Extraction(TRUE, "undefined",
              <<PositionGroup("K01", NullNum, <<CompExact>>)>>, 1),
   Extraction(TRUE, "undefined",
              <<PositionGroup("H01A", Num(70), <<CompDoubtful, CompNear>>)>>, 1),
   Extraction(TRUE, "undefined",
              <<PositionGroup("H01A", Num(70), <<CompExact>>),
                PositionGroup("H02A", Num(80), <<CompNear, CompExact>>)>>, 1)}

\* the catalogExtraction of a result that processFiles pushed from its catch
NoExtraction ==
  [defined |-> FALSE, success |-> FALSE, error |-> "undefined",
   position_groups |-> <<>>, ai_calls_made |-> 0]

\* the result processFile returns for an extraction
FileResult(file, extraction) ==
  [fileName |-> file.fileName, fileType |-> file.fileType,
   success |-> extraction.success, error |-> "undefined",
   catalogExtraction |-> extraction]

\* the result processFiles pushes when processFile threw
ThrownResult(file, message) ==
  [fileName |-> file.fileName, fileType |-> file.fileType,
   success |-> FALSE, error |-> message, catalogExtraction |-> NoExtraction]

\* a truthy number: neither null nor 0
NumTruthy(x) == x.t = "num" /\ x.m # 0

\* a >= b on numbers; null >= b is false for the positive b of the code
NumAtLeast(a, b) == a.t = "num" /\ ~NumLess(a, b)

\* the components of the groups of a result, group by group
RECURSIVE componentsOfGroups(_)
componentsOfGroups(groups) ==
  IF groups = <<>> THEN <<>>
  ELSE groups[1].components \o componentsOfGroups(Tail(groups))

\* result.success && result.catalogExtraction?.success
extractionSucceeded(result) ==
  result.success /\ result.catalogExtraction.defined /\ result.catalogExtraction.success

\* the components getProcessingSummary walks, file by file
RECURSIVE countedComponents(_)
countedComponents(rs) ==
  IF rs = <<>> THEN <<>>
  ELSE (IF extractionSucceeded(rs[1])
        THEN componentsOfGroups(rs[1].catalogExtraction.position_groups)
        ELSE <<>>) \o countedComponents(Tail(rs))

\* the entries the forEach of getProcessingSummary pushes to summary.errors
RECURSIVE errorsOf(_)
errorsOf(rs) ==
  IF rs = <<>> THEN <<>>
  ELSE (IF ~extractionSucceeded(rs[1]) /\ ~rs[1].success
        THEN <<[fileName |-> rs[1].fileName, error |-> rs[1].error]>>
        ELSE <<>>) \o errorsOf(Tail(rs))

getProcessingSummary(rs) ==
  LET comps == countedComponents(rs)
      matched == SelectSeq(comps, LAMBDA c : NumTruthy(c.matched_product_id))
      high == SelectSeq(matched, LAMBDA c :
                NumAtLeast(c.match_confidence, [t |-> "num", m |-> 9, e |-> 1]))
      low == SelectSeq(matched, LAMBDA c :
               /\ ~NumAtLeast(c.match_confidence, [t |-> "num", m |-> 9, e |-> 1])
               /\ NumAtLeast(c.match_confidence, [t |-> "num", m |-> 6, e |-> 1]))
  IN  [totalFiles |-> Len(rs),
       successful |-> Len(SelectSeq(rs, LAMBDA r : r.success)),
       failed |-> Len(SelectSeq(rs, LAMBDA r : ~r.success)),
       totalComponents |-> Len(comps),
       catalogMatchedComponents |-> Len(matched),
       highConfidenceMatches |-> Len(high),
       lowConfidenceMatches |-> Len(low),
       noMatches |-> Len(comps) - Len(matched),
       errors |-> errorsOf(rs)]

\* the entry submitToDatabase pushes for a component of a group
ComponentToInsert(group, comp) ==
  [positionId |-> group.position_id, productId |-> comp.matched_product_id,
   productDescription |-> comp.description]

\* entries for the matched components of every group, with or without a
\* position_id
RECURSIVE toInsertOfGroupsAll(_)
toInsertOfGroupsAll(groups) ==
  IF groups = <<>> THEN <<>>
  ELSE (LET matched == SelectSeq(groups[1].components,
                                 LAMBDA c : NumTruthy(c.matched_product_id))
        IN  [i \in 1..Len(matched) |-> ComponentToInsert(groups[1], matched[i])])
       \o toInsertOfGroupsAll(Tail(groups))

\* the entries submitToDatabase pushes for the groups of one result
RECURSIVE toInsertOfGroups(_)
toInsertOfGroups(groups) ==
  IF groups = <<>> THEN <<>>
  ELSE (IF NumTruthy(groups[1].position_id)
        THEN LET matched == SelectSeq(groups[1].components,
                                      LAMBDA c : NumTruthy(c.matched_product_id))
             IN  [i \in 1..Len(matched) |-> ComponentToInsert(groups[1], matched[i])]
        ELSE <<>>) \o toInsertOfGroups(Tail(groups))

\* componentsToInsert as the forEach of submitToDatabase fills it
RECURSIVE toInsert(_)
toInsert(rs) ==
  IF rs = <<>> THEN <<>>
  ELSE (IF extractionSucceeded(rs[1])
        THEN toInsertOfGroups(rs[1].catalogExtraction.position_groups)
        ELSE <<>>) \o toInsert(Tail(rs))

VARIABLES
  pfPc,                \* where processFiles and the renderer after it stand
  pfRuns,              \* calls of processFiles so far
  filePaths,           \* the argument filePaths
  preferredSupplierId, \* the argument preferredSupplierId
  results,             \* the array results of processFiles
  matchedAgainst,      \* history: the catalog of the extractor at each extractFromExcel
  summary,             \* what getProcessingSummary returned
  submitPc,            \* where submitToDatabase stands
  componentsToInsert,  \* the array componentsToInsert of submitToDatabase
  insertResults,       \* the array results of insertComponents
  inserts              \* history: the components handed to db.insertComponent

filesVars ==
  <<pfPc, pfRuns, filePaths, preferredSupplierId, results, matchedAgainst, summary,
    submitPc, componentsToInsert, insertResults, inserts>>

NoSummary == getProcessingSummary(<<>>)

FilesInit ==
  /\ pfPc = "idle"
  /\ pfRuns = 0
  /\ filePaths = <<>>
  /\ preferredSupplierId = "null"
  /\ results = <<>>
  /\ matchedAgainst = <<>>
  /\ summary = NoSummary
  /\ submitPc = "none"
  /\ componentsToInsert = <<>>
  /\ insertResults = <<>>
  /\ inserts = <<>>

FilesIdle ==
  /\ pfPc = "off"
  /\ pfRuns = 0
  /\ filePaths = <<>>
  /\ preferredSupplierId = "null"
  /\ results = <<>>
  /\ matchedAgainst = <<>>
  /\ summary = NoSummary
  /\ submitPc = "none"
  /\ componentsToInsert = <<>>
  /\ insertResults = <<>>
  /\ inserts = <<>>

\* the renderer calls processFiles with the files and the supplier the user
\* chose; processFiles awaits this.initialize()
ProcessFiles ==
  /\ pfPc \in {"idle", "returned", "threw"}
  /\ submitPc \in {"none", "nothing", "done"}
  /\ pfRuns < MaxProcessRuns
  /\ pfRuns' = pfRuns + 1
  /\ \E n \in 1..MaxFiles : \E paths \in [1..n -> FilePool] : filePaths' = paths
  /\ \E supplier \in SupplierPool : preferredSupplierId' = supplier
  /\ CallInitialize("processFiles")
  /\ pfPc' = "initialize"
  /\ results' = <<>>
  /\ matchedAgainst' = <<>>
  /\ summary' = NoSummary
  /\ submitPc' = "none"
  /\ componentsToInsert' = <<>>
  /\ insertResults' = <<>>
  /\ inserts' = <<>>

\* initialize has settled; with a preferred supplier the catalog of that
\* supplier is fetched and set on the extractor
SetPreferredCatalog ==
  /\ pfPc = "initialize"
  /\ initPc["processFiles"] \in {"returned", "threw"}
  /\ IF initPc["processFiles"] = "threw"
     THEN /\ pfPc' = "threw"
          /\ UNCHANGED extractor
     ELSE IF preferredSupplierId # "null"
     THEN \E ok \in BOOLEAN :
            IF ok
            THEN /\ extractor' = [extractor EXCEPT !.productCatalog = preferredSupplierId]
                 /\ pfPc' = "files"
            ELSE /\ pfPc' = "threw"
                 /\ UNCHANGED extractor
     ELSE /\ pfPc' = "files"
          /\ UNCHANGED extractor
  /\ UNCHANGED <<isInitialized, initPc, initLog, pfRuns, filePaths, preferredSupplierId,
                 results, matchedAgainst, summary, submitPc, componentsToInsert,
                 insertResults, inserts>>

\* one turn of the loop of processFiles: processFile throws for a file type
\* it does not support, and wraps what extractFromExcel returns otherwise
ProcessFile ==
  /\ pfPc = "files"
  /\ Len(results) < Len(filePaths)
  /\ LET file == filePaths[Len(results) + 1]
     IN  IF file.fileType \notin supportedFileTypes
         THEN /\ results' = Append(results, ThrownResult(file, "Unsupported file type"))
              /\ UNCHANGED matchedAgainst
         ELSE \E extraction \in ExtractionPool :
                /\ results' = Append(results, FileResult(file, extraction))
                /\ matchedAgainst' = Append(matchedAgainst, extractor.productCatalog)
  /\ UNCHANGED <<initVars, pfPc, pfRuns, filePaths, preferredSupplierId, summary,
                 submitPc, componentsToInsert, insertResults, inserts>>

\* processFiles returns and the renderer takes the summary of the results
ReturnResults ==
  /\ pfPc = "files"
  /\ Len(results) = Len(filePaths)
  /\ pfPc' = "returned"
  /\ summary' = getProcessingSummary(results)
  /\ UNCHANGED <<initVars, pfRuns, filePaths, preferredSupplierId, results,
                 matchedAgainst, submitPc, componentsToInsert, insertResults, inserts>>

\* submitToDatabase collects the components to insert and, when there are
\* any, calls insertComponents
SubmitToDatabase ==
  /\ pfPc = "returned"
  /\ submitPc = "none"
  /\ componentsToInsert' = toInsert(results)
  /\ submitPc' = IF toInsert(results) = <<>> THEN "nothing" ELSE "inserting"
  /\ UNCHANGED <<initVars, pfPc, pfRuns, filePaths, preferredSupplierId, results,
                 matchedAgainst, summary, insertResults, inserts>>

\* one turn of the loop of insertComponents: db.insertComponent succeeds or
\* throws, and either way a result is pushed
InsertComponent ==
  /\ submitPc = "inserting"
  /\ Len(insertResults) < Len(componentsToInsert)
  /\ LET component == componentsToInsert[Len(insertResults) + 1]
     IN  /\ inserts' = Append(inserts, component)
         /\ \E ok \in BOOLEAN :
              insertResults' = Append(insertResults,
                                      [success |-> ok, positionId |-> component.positionId])
  /\ UNCHANGED <<initVars, pfPc, pfRuns, filePaths, preferredSupplierId, results,
                 matchedAgainst, summary, submitPc, componentsToInsert>>

\* insertComponents returns its results
InsertComponentsReturns ==
  /\ submitPc = "inserting"
  /\ Len(insertResults) = Len(componentsToInsert)
  /\ submitPc' = "done"
  /\ UNCHANGED <<initVars, pfPc, pfRuns, filePaths, preferredSupplierId, results,
                 matchedAgainst, summary, componentsToInsert, insertResults, inserts>>

(***************************************************************************)
(* The renderer: the state of renderer.js and the processFiles calls in    *)
(* progress                                                                *)
(***************************************************************************)
\* the processFiles calls the user may start
MaxStarts == 2

\* the files the user can select
UploadPool == {<<"a.xlsx">>, <<"a.xlsx", "b.xlsx">>}

\* the mappings savePositionMappings can build from the references typed in
SavedMappingsPool ==
  {<<>>, <<PositionMapping(<<"H", "0", "1", "A">>, "8", "80")>>}

\* extractedData = null
NoData == [defined |-> FALSE, files |-> <<>>, mappings |-> <<>>, locality |-> "null"]

VARIABLES
  uploadedFiles,     \* the global uploadedFiles
  positionMappings,  \* the global positionMappings
  extractedData,     \* the global extractedData
  currentLocality,   \* the global currentLocality: "null" or the name
  shownStep,         \* the area showStep showed last
  resultsArea,       \* resultsArea.innerHTML: "" or the data it renders
  calls,             \* the processFiles calls in progress, each where it stands
  starts,            \* processFiles calls that passed their guards so far
  untouched          \* history: clearAll ran and the user has not acted since

rendererVars ==
  <<uploadedFiles, positionMappings, extractedData, currentLocality, shownStep,
    resultsArea, calls, starts, untouched>>

\* DOMContentLoaded has run: showStep('upload')
RendererInit ==
  /\ uploadedFiles = <<>>
  /\ positionMappings = <<>>
  /\ extractedData = NoData
  /\ currentLocality = "null"
  /\ shownStep = "upload"
  /\ resultsArea = NoData
  /\ calls = <<>>
  /\ starts = 0
  /\ untouched = FALSE

RendererIdle ==
  /\ uploadedFiles = <<>>
  /\ positionMappings = <<>>
  /\ extractedData = NoData
  /\ currentLocality = "null"
  /\ shownStep = "off"
  /\ resultsArea = NoData
  /\ calls = <<>>
  /\ starts = 0
  /\ untouched = FALSE

\* selectFiles: the dialog returns files
SelectFiles ==
  /\ shownStep = "upload"
  /\ \E files \in UploadPool : uploadedFiles' = files
  /\ untouched' = FALSE
  /\ UNCHANGED <<positionMappings, extractedData, currentLocality, shownStep,
                 resultsArea, calls, starts>>

\* setupPositionMapping: without files an error is shown, with files the
\* locality step
SetupPositionMapping ==
  /\ shownStep = "upload"
  /\ shownStep' = IF uploadedFiles = <<>> THEN shownStep ELSE "locality"
  /\ untouched' = FALSE
  /\ UNCHANGED <<uploadedFiles, positionMappings, extractedData, currentLocality,
                 resultsArea, calls, starts>>

\* selectLocality: the locality is kept and the mapping step is shown
SelectLocality ==
  /\ shownStep = "locality"
  /\ currentLocality' = "Langholmen"
  /\ shownStep' = "mapping"
  /\ untouched' = FALSE
  /\ UNCHANGED <<uploadedFiles, positionMappings, extractedData, resultsArea, calls,
                 starts>>

\* the head of processFiles, up to its first await: the two guards, then
\* showStep('processing')
startProcessFiles(files, mappings) ==
  IF files = <<>> \/ mappings = <<>>
  THEN UNCHANGED <<calls, starts>>
  ELSE /\ calls' = Append(calls, [at |-> "progress", files |-> files, mappings |-> mappings])
       /\ starts' = starts + 1

\* savePositionMappings: with no reference typed in an error is shown;
\* otherwise proceedToProcessing shows the processing step and calls
\* processFiles
SavePositionMappings ==
  /\ shownStep = "mapping"
  /\ starts < MaxStarts
  /\ \E saved \in SavedMappingsPool :
       /\ positionMappings' = saved
       /\ IF saved = <<>>
          THEN UNCHANGED <<shownStep, calls, starts>>
          ELSE /\ shownStep' = "processing"
               /\ startProcessFiles(uploadedFiles, saved)
  /\ untouched' = FALSE
  /\ UNCHANGED <<uploadedFiles, extractedData, currentLocality, resultsArea>>

\* a click on processBtn: processFiles
ClickProcess ==
  /\ shownStep = "upload"
  /\ starts < MaxStarts
  /\ startProcessFiles(uploadedFiles, positionMappings)
  /\ shownStep' = IF uploadedFiles = <<>> \/ positionMappings = <<>>
                  THEN shownStep ELSE "processing"
  /\ untouched' = FALSE
  /\ UNCHANGED <<uploadedFiles, positionMappings, extractedData, currentLocality,
                 resultsArea>>

\* processFiles after the two updateProgress awaits: it calls
\* fileProcessor.processFiles with the globals as they are now
CallFileProcessor ==
  /\ \E k \in 1..Len(calls) :
       /\ calls[k].at = "progress"
       /\ calls' = [calls EXCEPT ![k] = [at |-> "awaiting", files |-> uploadedFiles,
                                         mappings |-> positionMappings]]
  /\ UNCHANGED <<uploadedFiles, positionMappings, extractedData, currentLocality,
                 shownStep, resultsArea, starts, untouched>>

\* the sequence without its k-th element
without(s, k) == [i \in 1..(Len(s) - 1) |-> IF i < k THEN s[i] ELSE s[i + 1]]

\* fileProcessor.processFiles settles: on a result extractedData is set from
\* the result and the globals, and the timer for displayResults is set; on
\* an error the catch shows it
FileProcessorSettles ==
  /\ \E k \in 1..Len(calls) : \E ok \in BOOLEAN :
       /\ calls[k].at = "awaiting"
       /\ IF ok
          THEN /\ extractedData' = [defined |-> TRUE, files |-> calls[k].files,
                                    mappings |-> positionMappings,
                                    locality |-> currentLocality]
               /\ calls' = [calls EXCEPT ![k].at = "timer"]
          ELSE /\ calls' = without(calls, k)
               /\ UNCHANGED extractedData
  /\ UNCHANGED <<uploadedFiles, positionMappings, currentLocality, shownStep,
                 resultsArea, starts, untouched>>

\* the timer fires: displayResults(extractedData) reads data.locality.name
\* and throws on null; otherwise the results are rendered and shown
TimerFires ==
  /\ \E k \in 1..Len(calls) :
       /\ calls[k].at = "timer"
       /\ calls' = without(calls, k)
  /\ IF extractedData.defined /\ extractedData.locality # "null"
     THEN /\ resultsArea' = extractedData
          /\ shownStep' = "results"
     ELSE UNCHANGED <<resultsArea, shownStep>>
  /\ UNCHANGED <<uploadedFiles, positionMappings, extractedData, currentLocality,
                 starts, untouched>>

\* clearAll: the globals are reset and the upload step is shown
ClearAll ==
  /\ uploadedFiles' = <<>>
  /\ positionMappings' = <<>>
  /\ extractedData' = NoData
  /\ currentLocality' = "null"
  /\ resultsArea' = NoData
  /\ shownStep' = "upload"
  /\ untouched' = TRUE
  /\ UNCHANGED <<calls, starts>>

(***************************************************************************)
(* GPTExcelEnhancer.processSheetWithGPT and processBatchWithGPT            *)
(***************************************************************************)
\* the batches of one sheet
MaxBatches == 3

\* what one call of client.chat.completions.create can end in: a response
\* with component groups and tokens, a response whose content does not
\* parse, an error with status 429, another error
ApiOutcomes ==
  {[kind |-> "response", status |-> 200, componentGroups |-> <<"H01A">>, tokensUsed |-> 100],
   [kind |-> "response", status |-> 200, componentGroups |-> <<>>, tokensUsed |-> 40],
   [kind |-> "unparsable", status |-> 200, componentGroups |-> <<>>, tokensUsed |-> 0],
   [kind |-> "error", status |-> 429, componentGroups |-> <<>>, tokensUsed |-> 0],
   [kind |-> "error", status |-> 500, componentGroups |-> <<>>, tokensUsed |-> 0]}

VARIABLES
  gptPc,               \* where processSheetWithGPT stands
  batches,             \* the number of batches of the sheet
  batchNo,             \* the batch in progress
  allComponentGroups,  \* allComponentGroups of processSheetWithGPT
  totalTokens,         \* totalTokens of processSheetWithGPT
  batchResults,        \* history: what processBatchWithGPT returned, per batch
  apiCalls             \* history: the API calls, with batch and outcome

gptVars ==
  <<gptPc, batches, batchNo, allComponentGroups, totalTokens, batchResults, apiCalls>>

GptInit ==
  /\ gptPc = "idle"
  /\ batches = 0
  /\ batchNo = 0
  /\ allComponentGroups = <<>>
  /\ totalTokens = 0
  /\ batchResults = <<>>
  /\ apiCalls = <<>>

GptIdle ==
  /\ gptPc = "off"
  /\ batches = 0
  /\ batchNo = 0
  /\ allComponentGroups = <<>>
  /\ totalTokens = 0
  /\ batchResults = <<>>
  /\ apiCalls = <<>>

\* a catch that retries after every error
isRateLimitAlways(error) == error.kind = "error"

\* error.status === 429
isRateLimit(error) == error.kind = "error" /\ error.status = 429

\* what processBatchWithGPT returns for the outcome of its last call
batchReturn(outcome) ==
  IF outcome.kind = "response"
  THEN [componentGroups |-> outcome.componentGroups, tokensUsed |-> outcome.tokensUsed]
  ELSE [componentGroups |-> <<>>, tokensUsed |-> 0]

\* processSheetWithGPT is called with a sheet of n batches
ProcessSheetWithGPT ==
  /\ gptPc = "idle"
  /\ \E n \in 0..MaxBatches : batches' = n
  /\ batchNo' = 1
  /\ gptPc' = "batch"
  /\ UNCHANGED <<allComponentGroups, totalTokens, batchResults, apiCalls>>

\* the result of processBatchWithGPT joins those of the sheet
takeBatch(result) ==
  /\ allComponentGroups' = allComponentGroups \o result.componentGroups
  /\ totalTokens' = totalTokens + result.tokensUsed
  /\ batchResults' = Append(batchResults, result)
  /\ batchNo' = batchNo + 1
  /\ gptPc' = "batch"

\* processBatchWithGPT makes its call: on status 429 it waits for the
\* retry, otherwise it returns
FirstCall ==
  /\ gptPc = "batch"
  /\ batchNo <= batches
  /\ \E outcome \in ApiOutcomes :
       /\ apiCalls' = Append(apiCalls, [batch |-> batchNo, outcome |-> outcome])
       /\ IF isRateLimit(outcome)
          THEN /\ gptPc' = "retry"
               /\ UNCHANGED <<allComponentGroups, totalTokens, batchResults, batchNo>>
          ELSE takeBatch(batchReturn(outcome))
  /\ UNCHANGED batches

\* the retry after the wait: whatever it ends in, processBatchWithGPT returns
RetryCall ==
  /\ gptPc = "retry"
  /\ \E outcome \in ApiOutcomes :
       /\ apiCalls' = Append(apiCalls, [batch |-> batchNo, outcome |-> outcome])
       /\ takeBatch(batchReturn(outcome))
  /\ UNCHANGED batches

\* the loop over the batches is over: processSheetWithGPT returns
SheetReturns ==
  /\ gptPc = "batch"
  /\ batchNo > batches
  /\ gptPc' = "returned"
  /\ UNCHANGED <<batches, batchNo, allComponentGroups, totalTokens, batchResults, apiCalls>>

\* the state of the application around the extractors
appVars == <<initVars, filesVars, rendererVars, gptVars>>

AppIdle == InitializeIdle /\ FilesIdle /\ RendererIdle /\ GptIdle

(***************************************************************************)
(* The specifications                                                      *)
(***************************************************************************)
vars == <<hybridVars, fieldVars, haVars, mapVars, appVars>>

Init == HybridInit /\ FieldsIdle /\ HAIdle /\ MapIdle /\ AppIdle

Next ==
  \/ ExtractFromExcel /\ UNCHANGED <<fieldVars, haVars, mapVars, appVars>>
  \/ ReadSheet /\ UNCHANGED <<fieldVars, haVars, mapVars, appVars>>
  \/ StartGroup /\ UNCHANGED <<fieldVars, haVars, mapVars, appVars>>
  \/ Dispatch /\ UNCHANGED <<fieldVars, haVars, mapVars, appVars>>
  \/ Respond /\ UNCHANGED <<fieldVars, haVars, mapVars, appVars>>
  \/ Merge /\ UNCHANGED <<fieldVars, haVars, mapVars, appVars>>
  \/ EndSheet /\ UNCHANGED <<fieldVars, haVars, mapVars, appVars>>
  \/ Return /\ UNCHANGED <<fieldVars, haVars, mapVars, appVars>>

\* one HybridExtractor over its runs
Spec == Init /\ [][Next]_vars

HybridIdle ==
  /\ pc = "off"
  /\ runs = 0
  /\ sheetNo = 0
  /\ rowsLeft = 0
  /\ normalizedRows = <<>>
  /\ grouped = <<>>
  /\ gi = 1
  /\ out = <<>>
  /\ chunks = <<>>
  /\ ci = 1
  /\ promises = <<>>
  /\ aiCache = <<>>
  /\ aiCallCount = 0
  /\ positionGroups = <<>>
  /\ allPositionGroups = <<>>
  /\ callLog = <<>>

\* a call of the service that yields no parsable answer
FailingAnswers ==
  {Answer("throw", Null, Null, NullNum, NullNum),
   Answer("garbage", Null, Null, NullNum, NullNum)}

\* resolveComponentsWithAI on one component whose call fails: the result of
\* aiInterpretComponent and the component after the merge
CallResolveFailing ==
  /\ fOp = "none"
  /\ fOp' = "resolveFailing"
  /\ \E answer \in FailingAnswers :
     \E p \in {prepareForAI(fIn)} :
     \E res \in {interpret(answer, p)} :
       fOut' = [answer |-> answer.kind, result |-> res, component |-> mergeResult(p, res)]
  /\ UNCHANGED fIn

FieldsNext ==
  \/ CallIsHeaderRowRow /\ UNCHANGED <<hybridVars, haVars, mapVars, appVars>>
  \/ CallExtractDeterministicFields /\ UNCHANGED <<hybridVars, haVars, mapVars, appVars>>
  \/ CallExtractSpecifications /\ UNCHANGED <<hybridVars, haVars, mapVars, appVars>>
  \/ CallClassifyIdentifiers /\ UNCHANGED <<hybridVars, haVars, mapVars, appVars>>
  \/ CallResolveFailing /\ UNCHANGED <<hybridVars, haVars, mapVars, appVars>>

InitFields == HybridIdle /\ FieldsInit /\ HAIdle /\ MapIdle /\ AppIdle

\* the functions of HybridExtractor on one row
SpecFields == InitFields /\ [][FieldsNext]_vars

HANext == EnrichWithManufacturers /\ UNCHANGED <<hybridVars, fieldVars, mapVars, appVars>>

InitHA == HybridIdle /\ FieldsIdle /\ HAInit /\ MapIdle /\ AppIdle

\* enrichWithManufacturers on the groups of one sheet
SpecHA == InitHA /\ [][HANext]_vars

(***************************************************************************)
(* Properties.  The sequence order and the tokens they speak of are stated *)
(* here on their own, without the sort and the patterns of the code.       *)
(***************************************************************************)
\* the permutations of 1..n
Perms(n) == {p \in [1..n -> 1..n] : \A i, j \in 1..n : p[i] = p[j] => i = j}

\* the numeric sequence of a row; it is missing when this is no number
numericSequence(row) == parseFloat(replaceComma(row.rekkefolge))

\* a sorts strictly before b: numbers ascending, a missing sequence last
SequenceBefore(a, b) ==
  /\ IsNum(numericSequence(a))
  /\ IsNum(numericSequence(b)) => NumLess(numericSequence(a), numericSequence(b))

\* s holds the rows of a in sequence order, rows of equal sequence in the
\* order they have in a
InSequenceOrder(s, a) ==
  /\ Len(s) = Len(a)
  /\ \E p \in Perms(Len(a)) :
       /\ \A i \in 1..Len(a) : s[i] = a[p[i]]
       /\ \A i, j \in 1..Len(a) :
            i < j => \/ SequenceBefore(a[p[i]], a[p[j]])
                     \/ (~SequenceBefore(a[p[j]], a[p[i]]) /\ p[i] < p[j])

\* C1: every emitted group holds its rows ascending by numeric sequence, a
\* row without a numeric sequence after every row that has one, rows of
\* equal sequence in input order
C1_SortedBySequence ==
  \A g \in 1..Len(positionGroups) :
    LET e == positionGroups[g].komponenter
        s == grouped[g].components
    IN  /\ InSequenceOrder(s, grouped[g].arrival)
        /\ Len(e) = Len(s)
        /\ \A i \in 1..Len(e) :
             /\ e[i].type_original = s[i].type
             /\ e[i].beskrivelse = trim(s[i].type \o <<" ">> \o s[i].subtype)

\* the manufacturer a component of haGroups had when it was handed in
ownLeverandor(g, k) == haArrival[g].komponenter[k.rad].leverandor

\* C2 as claimed: a component without a manufacturer of its own carries the
\* manufacturer of the nearest preceding component that has one
C2_NearestPreceding ==
  haPc = "done" =>
    \A g \in 1..Len(haGroups) :
      LET ks == haGroups[g].komponenter
      IN  \A i \in 1..Len(ks) :
            LET prev == {j \in 1..(i - 1) : ownLeverandor(g, ks[j]) # Null}
            IN  (ownLeverandor(g, ks[i]) = Null /\ prev # {}) =>
                  ks[i].leverandor =
                    ownLeverandor(g, ks[CHOOSE j \in prev : \A x \in prev : x <= j])

\* C2 amended: a component without a manufacturer of its own carries the
\* manufacturer of the first component of its sorted group when that one
\* has a manufacturer, and stays without one otherwise
C2_FromFirstComponent ==
  haPc = "done" =>
    \A g \in 1..Len(haGroups) :
      LET ks == haGroups[g].komponenter
      IN  \A i \in 1..Len(ks) :
            ownLeverandor(g, ks[i]) = Null =>
              ks[i].leverandor = IF i > 1 THEN ownLeverandor(g, ks[1]) ELSE Null

\* a finished group [A, none, B, none] whose fourth component carries A
C2_Witness ==
  /\ haPc = "done"
  /\ \E g \in 1..Len(haGroups) :
       LET ks == haGroups[g].komponenter
       IN  /\ Len(ks) = 4
           /\ ownLeverandor(g, ks[1]) = <<"A", "Q", "S", " ", "T", "O", "R">>
           /\ ownLeverandor(g, ks[2]) = Null
           /\ ownLeverandor(g, ks[3]) = <<"S", "c", "a", "l", "e", " ", "A", "Q">>
           /\ ownLeverandor(g, ks[4]) = Null
           /\ ks[4].leverandor = <<"A", "Q", "S", " ", "T", "O", "R">>

\* C3: in an emitted group whose first row has a manufacturer M and whose
\* later rows have none, every component has manufacturer M
C3_WholeGroupInherits ==
  \A g \in 1..Len(positionGroups) :
    LET e == positionGroups[g].komponenter
        s == grouped[g].components
    IN  (/\ trim(s[1].montor) # <<>>
         /\ \A i \in 2..Len(s) : trim(s[i].montor) = <<>>)
        => \A i \in 1..Len(e) :
             toLowerCase(e[i].leverandor) = toLowerCase(trim(s[1].montor))

\* C4: the two rows of the end-to-end scenario give one group H01A with the
\* anchor and the shackle, the shackle with the inherited manufacturer
C4_EndToEnd ==
  (pc = "loop" /\ normalizedRows = <<RowPloganker, RowSjakkel>>) =>
    /\ Len(positionGroups) = 1
    /\ positionGroups[1].dokument_referanse = <<"H", "0", "1", "A">>
    /\ LET k == positionGroups[1].komponenter
       IN  /\ Len(k) = 2
           /\ k[1].type = <<"a", "n", "c", "h", "o", "r">>
           /\ k[1].spesifikasjoner.vekt_kg = Num(1700)
           /\ k[1].part_number = <<"6", "0", "6", "6", "1", "6">>
           /\ k[1].leverandor = <<"A", "Q", "S", " ", "T", "O", "R">>
           /\ k[2].type = <<"s", "h", "a", "c", "k", "l", "e">>
           /\ k[2].spesifikasjoner.kapasitet_t = Num(90)
           /\ k[2].sporingsnummer = <<"G", "A", "P", "-", "G", "B", "A">>
           /\ k[2].part_number = <<>>
           /\ k[2].leverandor = <<"A", "Q", "S", " ", "T", "O", "R">>


\* text holds a number directly followed, after blanks at most, by unit, and
\* that unit is not followed by the character notNext; with decimal the
\* number may end in a decimal separator
HasToken(text, unit, notNext, decimal) ==
  \E q \in 1..Len(text) : \E p \in (q + 1)..Len(text) :
    /\ \/ text[q] \in Digit
       \/ decimal /\ text[q] \in {".", ","} /\ q > 1 /\ text[q - 1] \in Digit
    /\ \A i \in (q + 1)..(p - 1) : text[i] = " "
    /\ OccursAt(text, unit, p)
    /\ ~(p + Len(unit) <= Len(text) /\ text[p + Len(unit)] = notNext)

HasWeightToken(text) == HasToken(text, <<"k", "g">>, "", TRUE)

HasLengthToken(text) == HasToken(text, <<"m">>, "m", TRUE)

HasDiameterToken(text) == HasToken(text, <<"m", "m">>, "", FALSE)

HasCapacityToken(text) == HasToken(text, <<"t">>, "a", TRUE)

HasSpecificationToken(text) ==
  \/ HasWeightToken(text)
  \/ HasLengthToken(text)
  \/ HasDiameterToken(text)
  \/ HasCapacityToken(text)

\* text starts with a bare number (digits, or digits.digits) followed, after
\* blanks at most, by a letter
StartsWithNumberedWord(text) ==
  \E n \in 1..Len(text) : \E r \in (n + 1)..Len(text) : \E k \in r..Len(text) :
    /\ \A i \in 1..n : text[i] \in Digit
    /\ \/ r = n + 1
       \/ /\ r > n + 2
          /\ text[n + 1] = "."
          /\ \A i \in (n + 2)..(r - 1) : text[i] \in Digit
    /\ \A i \in r..(k - 1) : text[i] \in Space
    /\ text[k] \in LowerAZ \cup NorwLower

\* the rules of the header filter on the row fIn
HeaderRule1 == trim(fIn.type) = <<>> /\ trim(fIn.subtype) = <<>>

HeaderRule2 == StartsWithNumberedWord(combinedOf(fIn))

HeaderRule3 ==
  \E h \in 1..Len(headerKeywords) : startsWith(combinedOf(fIn), headerKeywords[h])

HeaderRule4 ==
  /\ ~HasSpecificationToken(combinedOf(fIn))
  /\ trim(fIn.id) = <<>>
  /\ ~hasCountOf(fIn)

HeaderRule5 ==
  /\ InList(categoryWords, toLowerCase(trim(fIn.type)))
  /\ ~HasSpecificationToken(combinedOf(fIn))
  /\ trim(fIn.id) = <<>>

\* C5 as claimed: isHeaderRowRow says header exactly when one of the four
\* rules holds (both texts empty, numbered word, structural keyword, or no
\* specification token, no identifier and no positive quantity)
C5_FourRules ==
  fOp = "isHeaderRowRow" =>
    fOut = (HeaderRule1 \/ HeaderRule2 \/ HeaderRule3 \/ HeaderRule4)

\* C5 amended: isHeaderRowRow says header exactly when one of the four rules
\* holds or the type is a category word and the row has no specification
\* token and no identifier
C5_FiveRules ==
  fOp = "isHeaderRowRow" =>
    fOut = (HeaderRule1 \/ HeaderRule2 \/ HeaderRule3 \/ HeaderRule4 \/ HeaderRule5)

\* a row with a positive quantity that only the rule on the category words
\* makes a header
C5_Witness ==
  /\ fOp = "isHeaderRowRow"
  /\ HeaderRule5
  /\ ~(HeaderRule1 \/ HeaderRule2 \/ HeaderRule3 \/ HeaderRule4)
  /\ hasCountOf(fIn)
  /\ fOut = TRUE


AllDigits(s) == s # <<>> /\ \A i \in 1..Len(s) : s[i] \in Digit

\* four or more digits, optionally followed by a hyphen and digits
PartNumberShaped(id) ==
  \/ AllDigits(id) /\ Len(id) >= 4
  \/ \E h \in 1..Len(id) :
       /\ id[h] = "-"
       /\ h > 4
       /\ AllDigits(SubSeq(id, 1, h - 1))
       /\ AllDigits(SubSeq(id, h + 1, Len(id)))

\* digits followed by a unit, as in 12T and 20MIN
UnitShaped(id) ==
  \E n \in 1..(Len(id) - 1) :
    /\ AllDigits(SubSeq(id, 1, n))
    /\ SubSeq(id, n + 1, Len(id)) \in {<<"T">>, <<"M", "I", "N">>}

\* letters, digits and hyphens, with a hyphen or a leading letter
TrackingShaped(id) ==
  /\ id # <<>>
  /\ \A i \in 1..Len(id) : id[i] \in UpperAZ \cup LowerAZ \cup Digit \cup {"-"}
  /\ \/ \E i \in 1..Len(id) : id[i] = "-"
     \/ id[1] \in UpperAZ \cup LowerAZ
  /\ ~PartNumberShaped(id)
  /\ ~UnitShaped(id)

\* C6: extractDeterministicFields makes an identifier of four or more digits
\* (optionally -digits) the part number, an alphanumeric identifier with a
\* hyphen or leading letters the tracking number, a digits-plus-unit token
\* neither, and never sets both
C6_IdentifierClassification ==
  fOp = "extractDeterministicFields" =>
    LET id == trim(fIn.id)
    IN  /\ PartNumberShaped(id) => fOut.partNumber = id /\ fOut.tracking = Null
        /\ TrackingShaped(id) => fOut.tracking = id /\ fOut.partNumber = Null
        /\ UnitShaped(id) => fOut.partNumber = Null /\ fOut.tracking = Null
        /\ ~(fOut.partNumber # Null /\ fOut.tracking # Null)

\* the text the specifications are read from, and the four that were read
specText ==
  IF fOp = "extractSpecifications" THEN toLowerCase(fIn.subtype)
  ELSE toLowerCase(fIn.type \o <<" ">> \o fIn.subtype)

specsRead ==
  IF fOp = "extractSpecifications"
  THEN [weight |-> fOut.vekt_kg, length |-> fOut.lengde_m,
        diameter |-> fOut.diameter_mm, capacity |-> fOut.kapasitet_t]
  ELSE [weight |-> fOut.weight_kg, length |-> fOut.length_m,
        diameter |-> fOut.diameter_mm, capacity |-> fOut.capacity_t]

\* C7: each of weight, length, diameter and capacity is a number exactly
\* when the text holds its token (number + kg, number + m not followed by m,
\* integer + mm, number + t not followed by a) and null otherwise, a comma
\* is read as a decimal point, and the two example descriptions give
\* diameter 30 with length 27.5, and weight 1700 alone
C7_SpecificationExtraction ==
  fOp \in {"extractDeterministicFields", "extractSpecifications"} =>
    /\ IF HasWeightToken(specText) THEN IsNum(specsRead.weight)
       ELSE specsRead.weight = NullNum
    /\ IF HasLengthToken(specText) THEN IsNum(specsRead.length)
       ELSE specsRead.length = NullNum
    /\ IF HasDiameterToken(specText) THEN IsNum(specsRead.diameter)
       ELSE specsRead.diameter = NullNum
    /\ IF HasCapacityToken(specText) THEN IsNum(specsRead.capacity)
       ELSE specsRead.capacity = NullNum
    /\ fIn.subtype = <<"K", "j", "e", "t", "t", "i", "n", "g", " ", "3", "0", "m", "m", " ", "-", " ", "2", "7", ",", "5", "m">> =>
         /\ specsRead.diameter = Num(30)
         /\ specsRead.length = [t |-> "num", m |-> 275, e |-> 1]
    /\ fIn.subtype = <<"7", ",", "5", "m">> => specsRead.length = [t |-> "num", m |-> 75, e |-> 1]
    /\ fIn.subtype = <<"S", "o", "f", "t", "a", "n", "k", "e", "r", " ", "1", "7", "0", "0", " ", "k", "g">> =>
         specsRead = [weight |-> Num(1700), length |-> NullNum,
                      diameter |-> NullNum, capacity |-> NullNum]

\* C7 for the extractor of the pipeline alone
C7_InExtractDeterministicFields ==
  fOp = "extractDeterministicFields" => C7_SpecificationExtraction


\* the component types of a ComponentRecord
ComponentTypes ==
  {<<"a", "n", "c", "h", "o", "r">>, <<"s", "h", "a", "c", "k", "l", "e">>, <<"c", "h", "a", "i", "n">>, <<"r", "o", "p", "e">>, <<"b", "u", "o", "y">>, <<"s", "w", "i", "v", "e", "l">>, <<"t", "h", "i", "m", "b", "l", "e">>,
   <<"c", "o", "n", "n", "e", "c", "t", "o", "r">>, <<"s", "i", "n", "k", "e", "r">>, <<"u", "n", "k", "n", "o", "w", "n">>}

\* C8: the type of every component of every emitted group is one of anchor,
\* shackle, chain, rope, buoy, swivel, thimble, connector, sinker, unknown
C8_ComponentTypeInEnum ==
  \A g \in 1..Len(positionGroups) :
    \A i \in 1..Len(positionGroups[g].komponenter) :
      positionGroups[g].komponenter[i].type \in ComponentTypes

\* the component out[i] of the group in progress has a reason to go to the
\* resolver: its type is unknown, or it has no manufacturer and no earlier
\* component of the group has one to inherit, or it has no identifier while
\* its raw text is not empty, or it has none of the four specifications
HasReasonToResolve(i) ==
  LET c == out[i]
  IN  \/ c.componentType = <<"u", "n", "k", "n", "o", "w", "n">>
      \/ /\ ~Truthy(c.manufacturer)
         /\ ~\E k \in 1..(i - 1) : Truthy(out[k].manufacturer)
      \/ c.tracking = Null /\ c.partNumber = Null /\ c.rawText # <<>>
      \/ c.specs = NoSpecs

\* C9: every component the resolver is called for has a reason to go there
C9_ResolverOnlyWhenNeeded ==
  pc = "await" =>
    \A j \in 1..Len(promises) : HasReasonToResolve(chunks[ci][j])

\* C10: no key is sent to the external service twice, and no two calls in
\* flight have the same key
C10_OneCallPerKey ==
  /\ \A i, j \in 1..Len(callLog) : callLog[i] = callLog[j] => i = j
  /\ \A i, j \in 1..Len(promises) :
       (/\ promises[i].st = "flying"
        /\ promises[j].st = "flying"
        /\ promises[i].key = promises[j].key) => i = j


(***************************************************************************)
(* One long sheet: more rows of one position than one chunk of resolver    *)
(* calls holds                                                             *)
(***************************************************************************)
\* the rows a long sheet may hold in all
MaxBatchRows == 11

DigitChar == <<"0", "1", "2", "3", "4", "5", "6", "7", "8", "9">>

\* the decimal numeral of a number below 100
Decimal(n) ==
  IF n < 10 THEN <<DigitChar[n + 1]>>
  ELSE <<DigitChar[(n \div 10) + 1], DigitChar[(n % 10) + 1]>>

\* the i-th shackle of a mooring line: no manufacturer of its own and no
\* specification in its text, so the resolver is asked for it
LongRow(i) ==
  NormalizedRow(<<"H", "0", "1", "A">>, Decimal(i), <<"S", "j", "a", "k", "k", "e", "l">>, <<"S", "j", "a", "k", "k", "e", "l", " ", "n", "r", " ">> \o Decimal(i),
                <<"G", "A", "P", "-", "G", "B", "A">>, <<>>, <<>>)

\* a sheet of n such rows, written bottom-up: the last component first
LongSheet(n) == [k \in 1..n |-> LongRow(n + 1 - k)]

\* the service of this scenario throws or answers a filled JSON object
BatchAnswers ==
  {Answer("throw", Null, Null, NullNum, NullNum),
   Answer("json", <<"k", "a", "u", "s", "e">>, <<"F", "r", "/o", "y">>, Num(5), Num(0))}

\* the loop reads the next sheet; the last sheet of the last workbook may
\* hold more rows than one batch takes, the sheets before it are empty
ReadLongSheet ==
  /\ pc = "loop"
  /\ sheetNo < MaxSheets
  /\ \E n \in {0} \cup (IF runs = MaxRuns /\ sheetNo = MaxSheets - 1
                        THEN (aiConcurrency + 1)..rowsLeft ELSE {}) :
     \E rows \in {LongSheet(n)} :
       /\ sheetNo' = sheetNo + 1
       /\ rowsLeft' = rowsLeft - n
       /\ normalizedRows' = rows
       /\ IF n = 0
          THEN UNCHANGED <<pc, grouped, gi, positionGroups>>
          ELSE /\ pc' = "group"
               /\ grouped' = groupRows(rows)
               /\ gi' = 1
               /\ positionGroups' = <<>>
  /\ UNCHANGED <<runs, out, chunks, ci, promises, aiCache, aiCallCount,
                 allPositionGroups, callLog>>

RespondBatch == RespondWith(BatchAnswers)

HybridBatchInit ==
  /\ pc = "idle"
  /\ runs = 0
  /\ sheetNo = 0
  /\ rowsLeft = MaxBatchRows
  /\ normalizedRows = <<>>
  /\ grouped = <<>>
  /\ gi = 1
  /\ out = <<>>
  /\ chunks = <<>>
  /\ ci = 1
  /\ promises = <<>>
  /\ aiCache = <<>>
  /\ aiCallCount = 0
  /\ positionGroups = <<>>
  /\ allPositionGroups = <<>>
  /\ callLog = <<>>

InitBatch == HybridBatchInit /\ FieldsIdle /\ HAIdle /\ MapIdle /\ AppIdle

BatchNext ==
  \/ ExtractFromExcel /\ UNCHANGED <<fieldVars, haVars, mapVars, appVars>>
  \/ ReadLongSheet /\ UNCHANGED <<fieldVars, haVars, mapVars, appVars>>
  \/ StartGroup /\ UNCHANGED <<fieldVars, haVars, mapVars, appVars>>
  \/ Dispatch /\ UNCHANGED <<fieldVars, haVars, mapVars, appVars>>
  \/ RespondBatch /\ UNCHANGED <<fieldVars, haVars, mapVars, appVars>>
  \/ Merge /\ UNCHANGED <<fieldVars, haVars, mapVars, appVars>>
  \/ EndSheet /\ UNCHANGED <<fieldVars, haVars, mapVars, appVars>>
  \/ Return /\ UNCHANGED <<fieldVars, haVars, mapVars, appVars>>

\* one HybridExtractor over long sheets
SpecBatch == InitBatch /\ [][BatchNext]_vars


\* the calls of the resolver that are outstanding
outstanding == {j \in 1..Len(promises) : promises[j].st = "flying"}

emittedWith(prepared, res) == processedOf(mergeResult(prepared, res))

\* C12: whatever the order in which the calls of a batch complete, a group
\* just emitted holds one component per row in the order the sort gave the
\* rows before the resolver was asked, and the component at each index is
\* the merge of that row with the result of the call made for that row.
C12_MergedByIndex ==
  pc = "group" /\ gi > 1 =>
    LET sorted == grouped[gi - 1].components
        komponenter == positionGroups[gi - 1].komponenter
    IN  /\ Len(komponenter) = Len(sorted)
        /\ \A i \in 1..Len(sorted) :
             \E p \in {prepareForAI(sorted[i])} :
               /\ needsAiOf(p)
               /\ keyOf(p) \in DOMAIN aiCache
               /\ komponenter[i] = emittedWith(p, aiCache[keyOf(p)])

\* a group is emitted whose first call failed and whose second call was
\* answered
C12_Witness ==
  /\ positionGroups # <<>>
  /\ Len(positionGroups[1].komponenter) >= 2
  /\ positionGroups[1].komponenter[1].leverandor = <<>>
  /\ positionGroups[1].komponenter[2].leverandor = <<"F", "r", "/o", "y">>


(***************************************************************************)
(* The extractor with a service whose every call throws                    *)
(***************************************************************************)
ThrowAnswers == {Answer("throw", Null, Null, NullNum, NullNum)}

\* a fully resolved row of another position, a header row and a row
\* without a position
RowAnkerK01 == [RowAnker EXCEPT !.posisjon = <<"K", "0", "1">>]

RowHeader == NormalizedRow(<<"H", "0", "1", "A">>, <<>>, <<"T", "y", "p", "e">>, <<>>, <<>>, <<>>, <<>>)

RowNoPosition == [RowSjakkel EXCEPT !.posisjon = <<>>]

\* the rows of the sheets of this scenario
ThrowRows == {RowSjakkel, RowAnkerK01, RowHeader, RowNoPosition}

ReadThrowSheet == ReadSheetFrom(ThrowRows)

RespondThrow == RespondWith(ThrowAnswers)

ThrowsNext ==
  \/ ExtractFromExcel /\ UNCHANGED <<fieldVars, haVars, mapVars, appVars>>
  \/ ReadThrowSheet /\ UNCHANGED <<fieldVars, haVars, mapVars, appVars>>
  \/ StartGroup /\ UNCHANGED <<fieldVars, haVars, mapVars, appVars>>
  \/ Dispatch /\ UNCHANGED <<fieldVars, haVars, mapVars, appVars>>
  \/ RespondThrow /\ UNCHANGED <<fieldVars, haVars, mapVars, appVars>>
  \/ Merge /\ UNCHANGED <<fieldVars, haVars, mapVars, appVars>>
  \/ EndSheet /\ UNCHANGED <<fieldVars, haVars, mapVars, appVars>>
  \/ Return /\ UNCHANGED <<fieldVars, haVars, mapVars, appVars>>

InitThrows == HybridInit /\ FieldsIdle /\ HAIdle /\ MapIdle /\ AppIdle

SpecThrows == InitThrows /\ [][ThrowsNext]_vars

\* the number of components of the groups gs
RECURSIVE componentCount(_)
componentCount(gs) ==
  IF gs = <<>> THEN 0
  ELSE Len(gs[Len(gs)].komponenter) + componentCount(SubSeq(gs, 1, Len(gs) - 1))

\* x <= 0.5 on numbers
AtMostHalf(x) == x.t = "num" /\ ~NumLess([t |-> "num", m |-> 5, e |-> 1], x)

\* C13: with a resolver whose every call throws, groupAndProcessRows still
\* comes to its end with one record for each row of the sheet that has a
\* position and is no header, in the group of that row's position, and every
\* record of a row that the resolver was asked about has confidence at most
\* 0.5.
C13_AllCallsThrow ==
  pc = "group" /\ gi > Len(grouped) =>
    /\ componentCount(positionGroups) = Len(keptRows(normalizedRows))
    /\ Len(positionGroups) = Len(grouped)
    /\ \A g \in 1..Len(grouped) :
         /\ Len(positionGroups[g].komponenter) = Len(grouped[g].components)
         /\ \A i \in 1..Len(grouped[g].components) :
              \E p \in {prepareForAI(grouped[g].components[i])} :
                /\ positionGroups[g].komponenter[i].beskrivelse = p.rawText
                /\ needsAiOf(p) =>
                     AtMostHalf(positionGroups[g].komponenter[i].confidence)

\* a sheet is done in which the resolver was asked and threw and one of the
\* three rows was a header or had no position
C13_Witness ==
  /\ pc = "group"
  /\ gi > Len(grouped)
  /\ callLog # <<>>
  /\ componentCount(positionGroups) = 2
  /\ Len(normalizedRows) = 3
  /\ \E g \in 1..Len(positionGroups) :
       \E i \in 1..Len(positionGroups[g].komponenter) :
         positionGroups[g].komponenter[i].confidence = [t |-> "num", m |-> 5, e |-> 1]


calledKeys == {callLog[k] : k \in 1..Len(callLog)}

\* C15: a call that fails degrades its own row only.  In a group just
\* emitted every row has had its call, also the rows of the batches after a
\* failure, every call has ended, and each record is the fallback of its own
\* row exactly when its own call failed: a row whose call was answered
\* carries the answer, whatever happened to the other calls of its batch.
C15_FailureIsLocal ==
  pc = "group" /\ gi > 1 =>
    \A i \in 1..Len(grouped[gi - 1].components) :
      \E p \in {prepareForAI(grouped[gi - 1].components[i])} :
      \E rec \in {positionGroups[gi - 1].komponenter[i]} :
        /\ keyOf(p) \in calledKeys
        /\ keyOf(p) \in DOMAIN aiCache
        /\ IF aiCache[keyOf(p)].confidence = [t |-> "num", m |-> 5, e |-> 1]
           THEN /\ rec.type = p.componentType
                /\ rec.leverandor = <<>>
                /\ rec.spesifikasjoner.vekt_kg = NullNum
           ELSE /\ rec.type = <<"k", "a", "u", "s", "e">>
                /\ rec.leverandor = <<"F", "r", "/o", "y">>
                /\ rec.spesifikasjoner.vekt_kg = Num(5)

\* a group of two batches is emitted: in the first batch one call failed and
\* a sibling was answered, and the call of the second batch was answered
C15_Witness ==
  /\ pc = "group"
  /\ gi > 1
  /\ Len(positionGroups[1].komponenter) = 11
  /\ positionGroups[1].komponenter[1].leverandor = <<>>
  /\ positionGroups[1].komponenter[2].leverandor = <<"F", "r", "/o", "y">>
  /\ positionGroups[1].komponenter[11].leverandor = <<"F", "r", "/o", "y">>


(***************************************************************************)
(* The extractor on workbooks with sheets that cannot be read              *)
(***************************************************************************)
\* reading the next sheet throws: the catch of extractFromExcel ends the run
SheetFails ==
  /\ pc = "loop"
  /\ sheetNo < MaxSheets
  /\ sheetNo' = sheetNo + 1
  /\ pc' = "failed"
  /\ UNCHANGED <<runs, rowsLeft, normalizedRows, grouped, gi, out, chunks, ci,
                 promises, aiCache, aiCallCount, positionGroups, allPositionGroups,
                 callLog>>

\* what extractFromExcel returns: success and data.position_groups, or
\* success: false and data: null
returned ==
  IF pc = "done" THEN [success |-> TRUE, position_groups |-> allPositionGroups]
  ELSE [success |-> FALSE, position_groups |-> <<>>]

FailingNext ==
  \/ ExtractFromExcel /\ UNCHANGED <<fieldVars, haVars, mapVars, appVars>>
  \/ ReadSheet /\ UNCHANGED <<fieldVars, haVars, mapVars, appVars>>
  \/ SheetFails /\ UNCHANGED <<fieldVars, haVars, mapVars, appVars>>
  \/ StartGroup /\ UNCHANGED <<fieldVars, haVars, mapVars, appVars>>
  \/ Dispatch /\ UNCHANGED <<fieldVars, haVars, mapVars, appVars>>
  \/ Respond /\ UNCHANGED <<fieldVars, haVars, mapVars, appVars>>
  \/ Merge /\ UNCHANGED <<fieldVars, haVars, mapVars, appVars>>
  \/ EndSheet /\ UNCHANGED <<fieldVars, haVars, mapVars, appVars>>
  \/ Return /\ UNCHANGED <<fieldVars, haVars, mapVars, appVars>>

InitFailing == HybridInit /\ FieldsIdle /\ HAIdle /\ MapIdle /\ AppIdle

SpecFailing == InitFailing /\ [][FailingNext]_vars

\* C16: a sheet that fails is reported as a failure of its file, and the
\* position groups of the other sheets of the file are still returned: when
\* extractFromExcel has returned, a failed sheet shows in success = false and
\* the result holds the groups of every sheet that was processed.
C16_SheetFailureIsLocal ==
  pc \in {"done", "failed"} =>
    /\ pc = "failed" => ~returned.success
    /\ returned.position_groups = allPositionGroups


(***************************************************************************)
(* Two runs on the same rows with the position mappings of each run        *)
(***************************************************************************)
MapNext ==
  \/ ExtractPositionsWithCatalogMatching /\ UNCHANGED <<hybridVars, fieldVars, haVars, appVars>>
  \/ ExtractComponents /\ UNCHANGED <<hybridVars, fieldVars, haVars, appVars>>

InitMap == HybridIdle /\ FieldsIdle /\ HAIdle /\ MapInit /\ AppIdle

SpecMap == InitMap /\ [][MapNext]_vars

\* a result without the annotation of the position mappings
extractionOf(groups) ==
  [i \in 1..Len(groups) |->
     [document_reference |-> groups[i].document_reference,
      components |-> groups[i].components]]

\* C17: position mappings never alter extraction: two runs on the same rows
\* that differ only in the positionMappings they are given emit the same
\* groups with the same components in the same order, and differ at most in
\* internal position, position id and mapping_found.
C17_MappingsOnlyAnnotate ==
  mapPc = "done" => extractionOf(mapResults[1]) = extractionOf(mapResults[2])


(***************************************************************************)
(* normalizeRow on one raw row.  A raw row is the sequence of its columns   *)
(* in Object.keys order, each column a pair of its name and its cell.      *)
(***************************************************************************)
\* the most columns of a raw row
MaxColumns == 3

\* the candidates of each field, in the order get tries them
candidatesOf ==
  [posisjon |-> <<<<"n", "a", "v", "n", " ", "/", " ", "n", "u", "m", "m", "e", "r">>, <<"n", "a", "v", "n">>, <<"n", "u", "m", "m", "e", "r">>, <<"p", "o", "s", "i", "s", "j", "o", "n">>, <<"p", "o", "s", "i", "t", "i", "o", "n">>,
                  <<"p", "o", "s", "i", "t", "i", "o", "n", "e", "r">>>>,
   rekkefolge |-> <<<<"r", "e", "k", "k", "e", "f", "/o", "l", "g", "e">>, <<"r", "e", "k", "k", "e", "f", "/o", "l", "g", "e", " ">>, <<"s", "e", "q", "u", "e", "n", "c", "e">>, <<"s", "e", "k", "v", "e", "n", "s">>, <<"p", "o", "s">>>>,
   type |-> <<<<"k", "o", "m", "p", "o", "n", "e", "n", "t", "t", "y", "p", "e">>, <<"t", "y", "p", "e">>, <<"k", "o", "m", "p", "o", "n", "e", "n", "t">>, <<"c", "o", "m", "p", "o", "n", "e", "n", "t">>>>,
   subtype |-> <<<<"k", "o", "m", "p", "o", "n", "e", "n", "t", "t", "y", "p", "e", " ", "i", " ", "b", "r", "u", "k">>, <<"s", "u", "b", "t", "y", "p", "e">>, <<"b", "e", "s", "k", "r", "i", "v", "e", "l", "s", "e">>, <<"d", "e", "s", "c", "r", "i", "p", "t", "i", "o", "n">>>>,
   id |-> <<<<"i", "d", "e", "n", "t", "i", "f", "i", "k", "a", "s", "j", "o", "n", "s", "n", "u", "m", "m", "e", "r">>, <<"i", "d">>, <<"s", "e", "r", "i", "e", "n", "u", "m", "m", "e", "r">>, <<"i", "d", "e", "n", "t", "i", "f", "i", "k", "a", "s", "j", "o", "n">>>>,
   montor |-> <<<<"m", "o", "n", "t", "e", "r", "t", " ", "a", "v">>, <<"m", "o", "n", "t", "e", "r", "t", "a", "v">>, <<"l", "e", "v", "e", "r", "a", "n", "d", "/o", "r">>, <<"l", "e", "v", "e", "r", "a", "n", "d", "o", "r">>,
                <<"m", "a", "n", "u", "f", "a", "c", "t", "u", "r", "e", "r">>>>,
   montert_dato |-> <<<<"m", "o", "n", "t", "e", "r", "t", " ", "d", "a", "t", "o">>, <<"d", "a", "t", "o">>, <<"d", "a", "t", "e">>>>,
   antall |-> <<<<"a", "n", "t", "a", "l", "l">>, <<"q", "u", "a", "n", "t", "i", "t", "y">>>>]

\* lowerKeys[c]: the names of the columns whose lowered and trimmed name is
\* c, in column order; the reduce leaves the last of them in lowerKeys
lowerKeysOf(row, c) ==
  LET named(col) == trim(toLowerCase(col[1])) = c
  IN  SelectSeq(row, named)

\* get(candidates) from candidate number k on
RECURSIVE getFrom(_, _, _)
getFrom(row, candidates, k) ==
  IF k > Len(candidates) THEN ""
  ELSE LET cols == lowerKeysOf(row, candidates[k])
       IN  IF cols # <<>> /\ cols[Len(cols)][1] # <<>> THEN cols[Len(cols)][2]
           ELSE getFrom(row, candidates, k + 1)

\* get(candidates) trying the candidates from the last one
RECURSIVE getFromLast(_, _, _)
getFromLast(row, candidates, k) ==
  IF k > Len(candidates) THEN ""
  ELSE LET cols == lowerKeysOf(row, candidates[Len(candidates) + 1 - k])
       IN  IF cols # <<>> /\ cols[Len(cols)][1] # <<>> THEN cols[Len(cols)][2]
           ELSE getFromLast(row, candidates, k + 1)

\* the candidate tried first is the last of the list
getLast(row, candidates) == getFromLast(row, candidates, 1)

\* get(candidates) of normalizeRow
get(row, candidates) == getFrom(row, candidates, 1)

normalizeRow(row) == [f \in DOMAIN candidatesOf |-> get(row, candidatesOf[f])]

\* the columns a raw row may have: its name as the sheet writes it, and its
\* cell
ColumnPool ==
  {<<<<"K", "o", "m", "p", "o", "n", "e", "n", "t", "t", "y", "p", "e">>, "Sjakkel">>, <<<<"T", "y", "p", "e">>, "Anker">>, <<<<" ", "T", "Y", "P", "E", " ">>, "">>,
   <<<<"K", "o", "m", "p", "o", "n", "e", "n", "t">>, "Kjetting">>, <<<<"P", "o", "s", "i", "s", "j", "o", "n">>, "H01A">>, <<<<"N", "a", "v", "n", " ", "/", " ", "N", "u", "m", "m", "e", "r">>, "K01">>,
   <<<<"S", "e", "k", "v", "e", "n", "s">>, "2">>, <<<<"P", "O", "S">>, "3">>, <<<<"K", "o", "m", "m", "e", "n", "t", "a", "r">>, "ok">>}

\* the raw rows: up to MaxColumns columns of the pool, each at most once
RawRows ==
  UNION {{r \in [1..n -> ColumnPool] : \A i, j \in 1..n : r[i] = r[j] => i = j} :
           n \in 0..MaxColumns}

NormalizeInit ==
  /\ fIn \in RawRows
  /\ fOp = "none"
  /\ fOut = <<>>

CallNormalizeRow ==
  /\ fOp = "none"
  /\ fOp' = "normalizeRow"
  /\ fOut' = normalizeRow(fIn)
  /\ UNCHANGED fIn

NormalizeNext == CallNormalizeRow /\ UNCHANGED <<hybridVars, haVars, mapVars, appVars>>

InitNormalize == HybridIdle /\ NormalizeInit /\ HAIdle /\ MapIdle /\ AppIdle

SpecNormalize == InitNormalize /\ [][NormalizeNext]_vars

\* the cells of the columns of row whose name is the synonym, whatever the
\* case of the name and the blanks around it
cellsNamed(row, synonym) ==
  {row[i][2] : i \in {j \in 1..Len(row) : trim(toLowerCase(row[j][1])) = synonym}}

\* C18: for each field normalizeRow takes the cell of a column whose name
\* matches, without regard to case, the earliest entry of the field's ordered
\* synonym list that any column matches, and the field is empty when no
\* column matches an entry of the list.
C18_EarliestSynonymWins ==
  fOp = "normalizeRow" =>
    \A f \in DOMAIN candidatesOf :
      LET syn == candidatesOf[f]
          found == {k \in 1..Len(syn) : cellsNamed(fIn, syn[k]) # {}}
      IN  IF found = {} THEN fOut[f] = ""
          ELSE \E k \in found :
                 /\ \A l \in found : k <= l
                 /\ fOut[f] \in cellsNamed(fIn, syn[k])

\* a row with columns for two synonyms of type, the later synonym's column
\* first, and without a column for the position
C18_Witness ==
  /\ fOp = "normalizeRow"
  /\ Len(fIn) = 3
  /\ fIn[1][1] = <<"T", "y", "p", "e">>
  /\ fIn[2][1] = <<"K", "o", "m", "p", "o", "n", "e", "n", "t", "t", "y", "p", "e">>
  /\ fOut.type = "Sjakkel"
  /\ fOut.posisjon = ""
  /\ fOut.rekkefolge = "3"


\* 0 <= x <= 1 on numbers
InUnitInterval(x) == x.t = "num" /\ ~NumLess(x, Num(0)) /\ ~NumLess(Num(1), x)

\* C19: the confidence of every emitted record lies in [0,1]; it is 1.0 for
\* a row that needed no call of the resolver; and a row whose resolver result
\* reports a lower confidence, 0 included, is not emitted with 1.0.  (No
\* answer of the service reports a confidence of 1 here; a result without one
\* counts as 0.9 and a fallback as 0.5.)
C19_ConfidenceKept ==
  pc = "group" /\ gi > 1 =>
    \A i \in 1..Len(grouped[gi - 1].components) :
      \E p \in {prepareForAI(grouped[gi - 1].components[i])} :
      \E rec \in {positionGroups[gi - 1].komponenter[i]} :
        /\ InUnitInterval(rec.confidence)
        /\ IF needsAiOf(p) THEN NumLess(rec.confidence, Num(1))
           ELSE rec.confidence = Num(1)


\* the groups among gs that have the document reference ref
groupsOf(gs, ref) == {g \in 1..Len(gs) : gs[g].dokument_referanse = ref}

\* the rows among rows that have the position ref
rowsAt(rows, ref) == {i \in 1..Len(rows) : positionOf(rows[i]) = ref}

\* C20 as claimed: the result of a run holds at most one group per position
\* reference, also when rows of one position come from different sheets.
C20_OneGroupPerPosition ==
  pc = "done" =>
    \A g, h \in 1..Len(allPositionGroups) :
      allPositionGroups[g].dokument_referanse = allPositionGroups[h].dokument_referanse
        => g = h

\* C20 as amended: the result of a run holds at most one group per sheet and
\* position reference, and at the end of a sheet every row of the sheet that
\* has a position and is no header is a component of exactly one group of
\* the sheet, the group of its own position reference.
C20_OneGroupPerSheetAndPosition ==
  /\ \A g, h \in 1..Len(allPositionGroups) :
       /\ allPositionGroups[g].dokument_referanse = allPositionGroups[h].dokument_referanse
       /\ allPositionGroups[g].sheet_kilde = allPositionGroups[h].sheet_kilde
       => g = h
  /\ pc = "group" /\ gi > Len(grouped) =>
       \E kept \in {keptRows(normalizedRows)} :
         /\ \A i \in 1..Len(kept) :
              \E g \in 1..Len(positionGroups) :
                /\ groupsOf(positionGroups, positionOf(kept[i])) = {g}
                /\ Len(positionGroups[g].komponenter)
                     = Cardinality(rowsAt(kept, positionOf(kept[i])))
         /\ \A g \in 1..Len(positionGroups) :
              rowsAt(kept, positionGroups[g].dokument_referanse) # {}

\* a run has returned two groups of one position, from two sheets
C20_Witness ==
  /\ pc = "done"
  /\ Len(allPositionGroups) = 2
  /\ allPositionGroups[1].dokument_referanse = allPositionGroups[2].dokument_referanse
  /\ allPositionGroups[1].sheet_kilde # allPositionGroups[2].sheet_kilde
  /\ Len(allPositionGroups[2].komponenter) = 2


(***************************************************************************)
(* The annotation of the groups with the position mappings                 *)
(***************************************************************************)
\* the places in the supplied order of the mappings whose documentReference
\* is ref up to the case of its letters
matchesOf(mappings, ref) ==
  {k \in 1..Len(mappings) :
     LET written == mappings[k].documentReference
     IN  /\ Len(written) = Len(ref)
         /\ \A j \in 1..Len(ref) : written[j] \in IgnoreCase({ref[j]})}

\* the earliest of a set of places
earliest(places) == CHOOSE k \in places : \A l \in places : k <= l

\* the supplied mappings of run r
suppliedTo(r) == mapInput.positionMappings[r]

\* C22: a group emitted by CatalogAwareExtractor has mapping_found = true
\* exactly when some supplied mapping has a documentReference equal to the
\* reference of the group ignoring case; then internal_position and
\* position_id are those of the first such mapping in the supplied order,
\* and otherwise both are null.
C22_MappingAnnotation ==
  mapInput.kind = "CatalogAwareExtractor" =>
    \A r \in 1..Len(mapResults) : \A i \in 1..Len(mapResults[r]) :
      LET group == mapResults[r][i]
          places == matchesOf(suppliedTo(r), group.document_reference)
      IN  /\ group.mapping_found = (places # {})
          /\ places # {} =>
               /\ group.internal_position = suppliedTo(r)[earliest(places)].internalPosition
               /\ group.position_id = suppliedTo(r)[earliest(places)].positionId
          /\ places = {} =>
               /\ group.internal_position = "null"
               /\ group.position_id = "null"

\* a run has emitted a group that two mappings match, the first of them in
\* another case than the reference, and a group that no mapping matches
C22_Witness ==
  /\ mapInput.kind = "CatalogAwareExtractor"
  /\ Len(mapResults) >= 1
  /\ Len(mapResults[1]) = 2
  /\ suppliedTo(1) = <<PositionMapping(<<"h", "0", "1", "a">>, "7", "70"), PositionMapping(<<"H", "0", "1", "A">>, "8", "80")>>
  /\ mapResults[1][1].mapping_found = FALSE
  /\ mapResults[1][2].position_id = "70"


(***************************************************************************)
(* The fallbacks in the cache of the resolver                              *)
(***************************************************************************)
\* the keys under which the cache holds a fallback
fallbackKeys(cache) ==
  {k \in DOMAIN cache : cache[k].confidence = [t |-> "num", m |-> 5, e |-> 1]}

\* C28: once a resolver call for a key has failed or returned unparsable
\* output, the fallback of confidence 0.5 is in the cache under that key and
\* stays there: no step of this or a later run removes or replaces it, no
\* step makes another external call for the key, and a step that starts a
\* run resets aiCallCount and leaves the cache as it is.
C28_FallbackStaysCached ==
  [][/\ \A k \in fallbackKeys(aiCache) :
          /\ k \in DOMAIN aiCache'
          /\ aiCache'[k] = aiCache[k]
          /\ \A n \in (Len(callLog) + 1)..Len(callLog') : callLog'[n] # k
     /\ runs' # runs => (aiCallCount' = 0 /\ aiCache' = aiCache)]_vars


(***************************************************************************)
(* enrichWithManufacturers as a function of the groups it is given         *)
(***************************************************************************)
\* the component of komponenter that came from row rad
fromRow(komponenter, rad) ==
  komponenter[CHOOSE i \in 1..Len(komponenter) : komponenter[i].rad = rad]

\* C29: a call of enrichWithManufacturers keeps in every group the same
\* components, never changes a manufacturer that a component already has,
\* marks leverandor_inherited only on components whose manufacturer it
\* filled in, and changes nothing when it is applied to its own output.
C29_EnrichKeepsAndIsIdempotent ==
  [][haPc' # haPc =>
       /\ Len(haGroups') = Len(haGroups)
       /\ \A g \in 1..Len(haGroups) :
            LET before == haGroups[g].komponenter
                after == haGroups'[g].komponenter
            IN  /\ Len(after) = Len(before)
                /\ {after[i].rad : i \in 1..Len(after)} =
                     {before[i].rad : i \in 1..Len(before)}
                /\ \A i \in 1..Len(after) :
                     LET was == fromRow(before, after[i].rad)
                     IN  /\ after[i].sekvens = was.sekvens
                         /\ Truthy(was.leverandor) =>
                              /\ after[i].leverandor = was.leverandor
                              /\ after[i].leverandor_inherited = was.leverandor_inherited
                         /\ ~Truthy(was.leverandor) =>
                              after[i].leverandor_inherited = Truthy(after[i].leverandor)
       /\ haPc' = "again" => haGroups' = haGroups]_vars

\* the function ran twice on a group that arrived out of order, in which one
\* component inherited and another kept a manufacturer that is not the
\* first one's
C29_Witness ==
  /\ haPc = "again"
  /\ \E g \in 1..Len(haGroups) :
       LET ks == haGroups[g].komponenter
       IN  /\ Len(ks) >= 3
           /\ ks[1].rad # 1
           /\ \E i \in 1..Len(ks) : ks[i].leverandor_inherited
           /\ \E i \in 1..Len(ks) : ks[i].leverandor # ks[1].leverandor


(***************************************************************************)
(* One processor and the callers of its initialize                         *)
(***************************************************************************)
InitializeNext ==
  \/ \E c \in InitCallers : CallInitialize(c)
       /\ UNCHANGED <<hybridVars, fieldVars, haVars, mapVars, filesVars, rendererVars, gptVars>>
  \/ \E c \in InitCallers : Connect(c)
       /\ UNCHANGED <<hybridVars, fieldVars, haVars, mapVars, filesVars, rendererVars, gptVars>>
  \/ \E c \in InitCallers : GetProductCatalog(c)
       /\ UNCHANGED <<hybridVars, fieldVars, haVars, mapVars, filesVars, rendererVars, gptVars>>

InitInitialize ==
  HybridIdle /\ FieldsIdle /\ HAIdle /\ MapIdle /\ InitializeInit /\ FilesIdle
    /\ RendererIdle /\ GptIdle

SpecInitialize == InitInitialize /\ [][InitializeNext]_vars

\* the entries of the log for op that ended as ok says
ended(op, ok) == SelectSeq(initLog, LAMBDA e : e.op = op /\ e.ok = ok)

\* C27: initialize connects to the database, loads the catalog and makes
\* the extractor at most once per processor, whatever the interleaving of
\* its callers: the catalog is loaded, and with it the extractor made, at
\* most once, and the database is connected once and once more only after
\* each catalog load that failed; isInitialized is true exactly when a
\* connect and a catalog load have both succeeded, so a failed initialize
\* leaves it false and a later call tries again.
C27_InitializeOnce ==
  /\ Len(ended("getProductCatalog", TRUE)) <= 1
  /\ Len(ended("connect", TRUE)) <= 1 + Len(ended("getProductCatalog", FALSE))
  /\ isInitialized = (ended("getProductCatalog", TRUE) # <<>>)
  /\ isInitialized => ended("connect", TRUE) # <<>>


(***************************************************************************)
(* One processor, its processFiles calls and what the renderer does with   *)
(* their results                                                           *)
(***************************************************************************)
FilesNext ==
  \/ ProcessFiles /\ UNCHANGED <<hybridVars, fieldVars, haVars, mapVars, rendererVars, gptVars>>
  \/ Connect("processFiles")
       /\ UNCHANGED <<hybridVars, fieldVars, haVars, mapVars, filesVars, rendererVars, gptVars>>
  \/ GetProductCatalog("processFiles")
       /\ UNCHANGED <<hybridVars, fieldVars, haVars, mapVars, filesVars, rendererVars, gptVars>>
  \/ SetPreferredCatalog
       /\ UNCHANGED <<hybridVars, fieldVars, haVars, mapVars, rendererVars, gptVars>>
  \/ ProcessFile /\ UNCHANGED <<hybridVars, fieldVars, haVars, mapVars, rendererVars, gptVars>>
  \/ ReturnResults /\ UNCHANGED <<hybridVars, fieldVars, haVars, mapVars, rendererVars, gptVars>>
  \/ SubmitToDatabase
       /\ UNCHANGED <<hybridVars, fieldVars, haVars, mapVars, rendererVars, gptVars>>
  \/ InsertComponent
       /\ UNCHANGED <<hybridVars, fieldVars, haVars, mapVars, rendererVars, gptVars>>
  \/ InsertComponentsReturns
       /\ UNCHANGED <<hybridVars, fieldVars, haVars, mapVars, rendererVars, gptVars>>

InitFiles ==
  HybridIdle /\ FieldsIdle /\ HAIdle /\ MapIdle /\ InitializeInit /\ FilesInit
    /\ RendererIdle /\ GptIdle

SpecFiles == InitFiles /\ [][FilesNext]_vars


\* the places file, group, component of the components of the results
placesOf(rs) ==
  {p \in (1..Len(rs)) \X (1..2) \X (1..2) :
     /\ p[2] <= Len(rs[p[1]].catalogExtraction.position_groups)
     /\ p[3] <= Len(rs[p[1]].catalogExtraction.position_groups[p[2]].components)}

groupAt(rs, p) == rs[p[1]].catalogExtraction.position_groups[p[2]]

componentAt(rs, p) == groupAt(rs, p).components[p[3]]

\* place p comes before place q in the order of files, groups and components
before(p, q) ==
  \/ p[1] < q[1]
  \/ p[1] = q[1] /\ p[2] < q[2]
  \/ p[1] = q[1] /\ p[2] = q[2] /\ p[3] < q[3]

\* the places of the components that are to be submitted: the file result
\* and the extraction succeeded, the group has a position_id and the
\* component a matched_product_id
submittable(rs) ==
  {p \in placesOf(rs) :
     /\ rs[p[1]].success
     /\ rs[p[1]].catalogExtraction.success
     /\ groupAt(rs, p).position_id # NullNum
     /\ componentAt(rs, p).matched_product_id # NullNum}

\* C25: submitToDatabase submits a component exactly when its file result
\* and its extraction both succeeded, its group has a position_id and the
\* component has a matched_product_id, in the order of the results;
\* insertComponents attempts the submitted components one by one in that
\* order, pushes one result per component, and goes on after an insert that
\* failed.
C25_SubmitAndInsert ==
  submitPc \in {"nothing", "inserting", "done"} =>
    LET places == submittable(results)
        rank(p) == 1 + Cardinality({q \in places : before(q, p)})
    IN  /\ Len(componentsToInsert) = Cardinality(places)
        /\ \A p \in places :
             /\ componentsToInsert[rank(p)].positionId = groupAt(results, p).position_id
             /\ componentsToInsert[rank(p)].productId =
                  componentAt(results, p).matched_product_id
        /\ Len(inserts) = Len(insertResults)
        /\ Len(inserts) <= Len(componentsToInsert)
        /\ \A k \in 1..Len(inserts) :
             /\ inserts[k] = componentsToInsert[k]
             /\ insertResults[k].positionId = componentsToInsert[k].positionId
        /\ submitPc = "done" => Len(inserts) = Len(componentsToInsert)
        /\ (submitPc = "nothing") = (places = {})

\* insertComponents has returned three results, the first of a failed insert
\* and the last of one that succeeded, for results in which one component
\* had no match
C25_Witness ==
  /\ submitPc = "done"
  /\ Len(insertResults) = 3
  /\ ~insertResults[1].success
  /\ insertResults[3].success
  /\ Cardinality(placesOf(results)) > 3

\* C21 as claimed: a component counts as matched to a catalog product, in
\* the summary and on submit, only when its match confidence is at least
\* 0.60; with a confidence below 0.60 its match is null and it is neither
\* counted as matched nor inserted.
C21_MatchedOnlyFromSixty ==
  LET sixty == [t |-> "num", m |-> 6, e |-> 1]
      counted == {p \in placesOf(results) :
                    results[p[1]].success /\ results[p[1]].catalogExtraction.success}
      sure(p) == NumAtLeast(componentAt(results, p).match_confidence, sixty)
  IN  /\ pfPc = "returned" =>
           /\ \A p \in counted :
                ~sure(p) => componentAt(results, p).matched_product_id = NullNum
           /\ summary.catalogMatchedComponents =
                Cardinality({p \in counted :
                               sure(p) /\ componentAt(results, p).matched_product_id # NullNum})
      /\ \A k \in 1..Len(inserts) :
           \E p \in counted :
             /\ sure(p)
             /\ inserts[k].productId = componentAt(results, p).matched_product_id

\* the error message of the file at place i of the results: what processFile
\* threw, or the error of the extraction that did not succeed
messageOf(rs, i) ==
  IF rs[i].catalogExtraction.defined THEN rs[i].catalogExtraction.error ELSE rs[i].error

\* the extraction of the file at place i did not succeed
notSucceeded(rs, i) ==
  ~rs[i].catalogExtraction.defined \/ ~rs[i].catalogExtraction.success

\* C23 as claimed: processFiles returns one result per input path, in input
\* order; in the summary successful + failed = totalFiles; and every file
\* whose extraction did not succeed, by a thrown error or by a result with
\* success false, is counted as failed and is in the error list of the
\* summary with its error message.
C23_OneResultPerFile ==
  pfPc = "returned" =>
    /\ Len(results) = Len(filePaths)
    /\ \A i \in 1..Len(results) : results[i].fileName = filePaths[i].fileName
    /\ summary.totalFiles = Len(filePaths)
    /\ summary.successful + summary.failed = summary.totalFiles
    /\ summary.failed = Cardinality({i \in 1..Len(results) : notSucceeded(results, i)})
    /\ \A i \in 1..Len(results) :
         notSucceeded(results, i) =>
           \E n \in 1..Len(summary.errors) :
             /\ summary.errors[n].fileName = results[i].fileName
             /\ summary.errors[n].error = messageOf(results, i)

\* C26 as claimed: a processFiles call without a preferred supplier matches
\* every file against the full catalog, also after an earlier call with a
\* preferred supplier.
C26_FullCatalogWithoutSupplier ==
  preferredSupplierId = "null" =>
    \A n \in 1..Len(matchedAgainst) : matchedAgainst[n] = "full"


\* processSheetWithGPT over a sheet of up to MaxBatches batches
GptNext ==
  \/ ProcessSheetWithGPT
       /\ UNCHANGED <<hybridVars, fieldVars, haVars, mapVars, initVars, filesVars, rendererVars>>
  \/ FirstCall
       /\ UNCHANGED <<hybridVars, fieldVars, haVars, mapVars, initVars, filesVars, rendererVars>>
  \/ RetryCall
       /\ UNCHANGED <<hybridVars, fieldVars, haVars, mapVars, initVars, filesVars, rendererVars>>
  \/ SheetReturns
       /\ UNCHANGED <<hybridVars, fieldVars, haVars, mapVars, initVars, filesVars, rendererVars>>

InitGpt ==
  /\ HybridIdle /\ FieldsIdle /\ HAIdle /\ MapIdle
  /\ InitializeIdle /\ FilesIdle /\ RendererIdle /\ GptInit

SpecGpt == InitGpt /\ [][GptNext]_vars

\* the outcomes of the API calls made for batch b, in the order of the calls
callsFor(b) ==
  LET own == SelectSeq(apiCalls, LAMBDA c : c.batch = b)
  IN  [k \in 1..Len(own) |-> own[k].outcome]

\* the call ended in a failure: an error of the API or a content that does
\* not parse
failedCall(outcome) == outcome.kind # "response"

\* C24: processBatchWithGPT never throws; after a first API failure with
\* status 429 it retries exactly once and after any other failure it does
\* not retry, so a batch causes at most two API calls; when the only or the
\* retried call fails the batch returns no component groups and 0 tokens;
\* and the batches of the sheet are all processed, one after the other.
C24_RetryOnceOnRateLimit ==
  /\ \A k \in 1..Len(apiCalls) :
       /\ k > 1 => apiCalls[k - 1].batch <= apiCalls[k].batch
       /\ apiCalls[k].batch \in 1..batches
  /\ \A b \in 1..MaxBatches :
       LET made == callsFor(b)
       IN  /\ Len(made) <= 2
           /\ Len(made) = 2 => made[1].kind = "error" /\ made[1].status = 429
           /\ b <= Len(batchResults) =>
                /\ Len(made) >= 1
                /\ (made[1].kind = "error" /\ made[1].status = 429) => Len(made) = 2
                /\ failedCall(made[Len(made)]) =>
                     batchResults[b] = [componentGroups |-> <<>>, tokensUsed |-> 0]
                /\ ~failedCall(made[Len(made)]) =>
                     batchResults[b] = [componentGroups |-> made[Len(made)].componentGroups,
                                        tokensUsed |-> made[Len(made)].tokensUsed]
  /\ Len(batchResults) <= batches
  /\ gptPc = "returned" => Len(batchResults) = batches

\* a sheet of three batches has returned: the first batch failed on its
\* retry after a 429, the second failed on its only call with a 500, and the
\* third still gave its component groups
C24_Witness ==
  /\ gptPc = "returned"
  /\ batches = 3
  /\ Len(callsFor(1)) = 2
  /\ callsFor(1)[1].status = 429
  /\ failedCall(callsFor(1)[2])
  /\ Len(callsFor(2)) = 1
  /\ callsFor(2)[1].status = 500
  /\ batchResults[1].componentGroups = <<>>
  /\ batchResults[2].tokensUsed = 0
  /\ allComponentGroups = <<"H01A">>


\* the renderer: the steps of the user, processFiles calls in progress and
\* clearAll at any moment
RendererNext ==
  \/ SelectFiles
       /\ UNCHANGED <<hybridVars, fieldVars, haVars, mapVars, initVars, filesVars, gptVars>>
  \/ SetupPositionMapping
       /\ UNCHANGED <<hybridVars, fieldVars, haVars, mapVars, initVars, filesVars, gptVars>>
  \/ SelectLocality
       /\ UNCHANGED <<hybridVars, fieldVars, haVars, mapVars, initVars, filesVars, gptVars>>
  \/ SavePositionMappings
       /\ UNCHANGED <<hybridVars, fieldVars, haVars, mapVars, initVars, filesVars, gptVars>>
  \/ ClickProcess
       /\ UNCHANGED <<hybridVars, fieldVars, haVars, mapVars, initVars, filesVars, gptVars>>
  \/ CallFileProcessor
       /\ UNCHANGED <<hybridVars, fieldVars, haVars, mapVars, initVars, filesVars, gptVars>>
  \/ FileProcessorSettles
       /\ UNCHANGED <<hybridVars, fieldVars, haVars, mapVars, initVars, filesVars, gptVars>>
  \/ TimerFires
       /\ UNCHANGED <<hybridVars, fieldVars, haVars, mapVars, initVars, filesVars, gptVars>>
  \/ ClearAll
       /\ UNCHANGED <<hybridVars, fieldVars, haVars, mapVars, initVars, filesVars, gptVars>>

InitRenderer ==
  /\ HybridIdle /\ FieldsIdle /\ HAIdle /\ MapIdle
  /\ InitializeIdle /\ FilesIdle /\ RendererInit /\ GptIdle

SpecRenderer == InitRenderer /\ [][RendererNext]_vars

\* C30 as claimed: a processFiles call gets past its guards only with at
\* least one selected file and one saved mapping; and once clearAll has run,
\* extractedData stays null and the upload step stays shown until the user
\* acts again, also when a processFiles call was awaiting its results.
C30_ClearAllStays ==
  /\ \A k \in 1..Len(calls) :
       calls[k].at = "progress" => calls[k].files # <<>> /\ calls[k].mappings # <<>>
  /\ untouched => extractedData = NoData /\ shownStep = "upload"

=============================================================================
